---- MODULE Spec2Model ----
(***************************************************************************)
(* Carrivo Assistant: the retrieval-and-grounding pipeline.                *)
(*                                                                         *)
(* Strings of the program are sequences of one-character strings, so that  *)
(* regular expressions, str.replace, rstrip and lower are computed         *)
(* character by character as Python computes them.                         *)
(***************************************************************************)
EXTENDS Integers, Sequences, FiniteSets, TLC

VARIABLES
    \* GroundingValidator (LLMService._validate_urls_against_context)
    upc,            \* "input" before a direct call, "done" after it, "off" otherwise
    text,           \* generated_text handed to the validator
    context,        \* grounding context: sequence of documents
    validated,      \* text returned by the validator
    \* ConversationOrchestrator (ChatService.process_message)
    pc,                     \* stage of the request
    message,                \* argument message
    preferred_language,     \* argument preferred_language
    session_id,             \* session_id after line 44
    detected,               \* (detected_lang, confidence) of the detector
    user_language,          \* resolved response language
    conversation_history,   \* rows returned by _get_conversation_history
    refined_message,        \* contextualized query
    response,               \* dict returned by LLMService.generate_response
    result,                 \* dict returned by process_message
    caught,                 \* an exception reached the handler of line 117
    attempt,                \* attempts of generate_response made by the retry wrapper
    completion_calls,       \* calls of client.chat.completions.create, in order
    searches,               \* calls of the retrievers, in order
    conversations,          \* table "conversations" of the store
    conversations_before,   \* the table when the request arrived
    clock,                  \* datetime.now()
    \* HybridRetriever (RoadmapService, RAGService, EmbeddingService)
    spc,            \* "input" before a search, "done" after it, "off" otherwise
    corpus,         \* "roadmaps" or "faq"
    the_query,      \* argument query of the search
    stored_rows,    \* the table of the corpus in the store
    the_limit,      \* argument limit of the search
    available,      \* EmbeddingService._available
    encoded,        \* what the embedding model returns for the query, or None
    rpc,            \* outcome of the similarity RPC of the store
    store_ok,       \* the store answers the fetch of the table
    results,        \* what the search returned
    called,         \* the search function that was called
    \* direct calls of AdvancedLanguageDetector.detect_with_confidence and
    \* RoadmapService._expand_query
    dpc,            \* "input" before a direct call, "done" after it, "off" otherwise
    arg_text,       \* the argument of the call
    returned,       \* what the call returned
    \* the server: requests of POST /chat on the event loop
    at,             \* where each request stands in process_message
    loop            \* the request whose coroutine the event loop runs, 0 when idle

uvars == <<upc, text, context, validated>>

cvars == <<pc, message, preferred_language, session_id, detected, user_language,
           conversation_history, refined_message, response, result, caught,
           attempt, completion_calls, searches, conversations,
           conversations_before, clock>>

svars == <<spc, corpus, the_query, stored_rows, the_limit, available, encoded, rpc,
           store_ok, results, called>>

pvars == <<dpc, arg_text, returned>>

lvars == <<at, loop>>

vars == <<uvars, cvars, svars, pvars, lvars>>

-----------------------------------------------------------------------------
(* Characters and elementary string functions                              *)

\* \s of a str pattern, and what str.strip() and str.split() take for
\* whitespace (str.isspace): the 29 such characters of the basic plane
Whitespace ==
    { " ", "\t", "\n", "\r", "\f",
      "U000B", "U001C", "U001D", "U001E", "U001F", "U0085", "U00A0", "U1680",
      "U2000", "U2001", "U2002", "U2003", "U2004", "U2005", "U2006", "U2007",
      "U2008", "U2009", "U200A", "U2028", "U2029", "U202F", "U205F", "U3000" }

\* the complement of the class [^\s<>"]
UrlStop == Whitespace \cup {"<", ">", "\""}

\* the class [.,;:!)]
TrailingPunct == {".", ",", ";", ":", "!", ")"}

UpperLetters == <<"A","B","C","D","E","F","G","H","I","J","K","L","M",
                  "N","O","P","Q","R","S","T","U","V","W","X","Y","Z">>
LowerLetters == <<"a","b","c","d","e","f","g","h","i","j","k","l","m",
                  "n","o","p","q","r","s","t","u","v","w","x","y","z">>

LowerChar(c) ==
    IF \E i \in 1..Len(UpperLetters) : UpperLetters[i] = c
    THEN LowerLetters[CHOOSE i \in 1..Len(UpperLetters) : UpperLetters[i] = c]
    ELSE c

\* str.lower()
Lower(s) == [i \in 1..Len(s) |-> LowerChar(s[i])]

\* s[i:i+len(p)] == p
HasAt(s, i, p) ==
    /\ i >= 1
    /\ i + Len(p) - 1 <= Len(s)
    /\ \A k \in 1..Len(p) : s[i + k - 1] = p[k]

\* p in s
Contains(s, p) == \E i \in 1..(Len(s) - Len(p) + 1) : HasAt(s, i, p)

Min(S) == CHOOSE x \in S : \A y \in S : x <= y
Max(S) == CHOOSE x \in S : \A y \in S : x >= y

RECURSIVE StrReplaceFrom(_, _, _, _)
\* the scan of str.replace from position i: the next occurrence of old at
\* or after i is replaced, and the scan resumes behind it
StrReplaceFrom(s, i, old, new) ==
    LET occ == { j \in i..(Len(s) - Len(old) + 1) : HasAt(s, j, old) }
    IN  IF occ = {} THEN SubSeq(s, i, Len(s))
        ELSE SubSeq(s, i, Min(occ) - 1) \o new
             \o StrReplaceFrom(s, Min(occ) + Len(old), old, new)

\* str.replace(old, new) for a non-empty old: every non-overlapping
\* occurrence, scanning from the left
StrReplace(s, old, new) == StrReplaceFrom(s, 1, old, new)

\* str.rstrip(chars) / re.sub('[chars]+$', '', s)
RStrip(s, chars) ==
    LET keep == { j \in 1..Len(s) : s[j] \notin chars }
    IN  IF keep = {} THEN << >> ELSE SubSeq(s, 1, Max(keep))

-----------------------------------------------------------------------------
(* The URL pattern  https?://[^\s<>"]+                                     *)

SchemeHttp  == <<"h","t","t","p",":","/","/">>
SchemeHttps == <<"h","t","t","p","s",":","/","/">>

SchemeLenAt(s, i) ==
    IF HasAt(s, i, SchemeHttps) THEN Len(SchemeHttps)
    ELSE IF HasAt(s, i, SchemeHttp) THEN Len(SchemeHttp)
    ELSE 0

\* length of the longest run of [^\s<>"] starting at position i
UrlCharRun(s, i) ==
    LET stops == { j \in i..Len(s) : s[j] \in UrlStop }
    IN  IF stops = {} THEN Len(s) - i + 1 ELSE Min(stops) - i

\* length of the match of the URL pattern anchored at i, 0 when there is none
UrlMatchLenAt(s, i) ==
    LET k == SchemeLenAt(s, i)
    IN  IF k = 0 THEN 0
        ELSE LET r == UrlCharRun(s, i + k)
             IN  IF r = 0 THEN 0 ELSE k + r

RECURSIVE UrlSpansFrom(_, _)
\* the non-overlapping matches at or after i, leftmost first, as
\* <<start, length>>
UrlSpansFrom(s, i) ==
    LET starts == { j \in i..Len(s) : UrlMatchLenAt(s, j) > 0 }
    IN  IF starts = {} THEN << >>
        ELSE LET j == Min(starts)
                 n == UrlMatchLenAt(s, j)
             IN  << <<j, n>> >> \o UrlSpansFrom(s, j + n)

UrlSpans(s) == UrlSpansFrom(s, 1)

\* re.findall(r'https?://[^\s<>"]+', s)
FindUrls(s) ==
    LET sp == UrlSpans(s)
    IN  [k \in 1..Len(sp) |-> SubSeq(s, sp[k][1], sp[k][1] + sp[k][2] - 1)]

RECURSIVE ReSubSpans(_, _, _, _, _)
\* s with the spans sp[k..] replaced by repl, copying from position i
ReSubSpans(s, sp, k, i, repl) ==
    IF k > Len(sp) THEN SubSeq(s, i, Len(s))
    ELSE SubSeq(s, i, sp[k][1] - 1) \o repl
         \o ReSubSpans(s, sp, k + 1, sp[k][1] + sp[k][2], repl)

\* re.sub with count=1: only the first match is replaced
ReSubUrls_first_only(s, repl) ==
    LET sp == UrlSpans(s)
    IN  ReSubSpans(s, IF sp = << >> THEN sp ELSE <<sp[1]>>, 1, 1, repl)

\* re.sub(r'https?://[^\s<>"]+', repl, s)
ReSubUrls(s, repl) == ReSubSpans(s, UrlSpans(s), 1, 1, repl)

Range(f) == {f[i] : i \in DOMAIN f}

-----------------------------------------------------------------------------
(* Character classes.  A character outside ASCII is written "Uxxxx", its    *)
(* code point.                                                             *)

HexDigits == {"0","1","2","3","4","5","6","7","8","9","A","B","C","D","E","F"}

\* the characters U+ppq0 .. U+ppqF for q in qs
Block(pp, qs) == { ("U" \o pp) \o (q \o x) : q \in qs, x \in HexDigits }

\* [\u0600-\u06FF\u0750-\u077F\u08A0-\u08FF\uFB50-\uFDFF\uFE70-\uFEFF]
ArabicRange ==
    Block("06", HexDigits) \cup Block("07", {"5","6","7"})
        \cup Block("08", {"A","B","C","D","E","F"})
        \cup Block("FB", HexDigits \ {"0","1","2","3","4"})
        \cup Block("FC", HexDigits) \cup Block("FD", HexDigits)
        \cup Block("FE", HexDigits \ {"0","1","2","3","4","5","6"})

\* the characters of ArabicRange that \w does not match: marks, signs,
\* punctuation and unassigned code points
ArabicNonWord ==
    {
      "U0600", "U0601", "U0602", "U0603", "U0604", "U0605", "U0606", "U0607",
      "U0608", "U0609", "U060A", "U060B", "U060C", "U060D", "U060E", "U060F",
      "U0610", "U0611", "U0612", "U0613", "U0614", "U0615", "U0616", "U0617",
      "U0618", "U0619", "U061A", "U061B", "U061C", "U061D", "U061E", "U061F",
      "U064B", "U064C", "U064D", "U064E", "U064F", "U0650", "U0651", "U0652",
      "U0653", "U0654", "U0655", "U0656", "U0657", "U0658", "U0659", "U065A",
      "U065B", "U065C", "U065D", "U065E", "U065F", "U066A", "U066B", "U066C",
      "U066D", "U0670", "U06D4", "U06D6", "U06D7", "U06D8", "U06D9", "U06DA",
      "U06DB", "U06DC", "U06DD", "U06DE", "U06DF", "U06E0", "U06E1", "U06E2",
      "U06E3", "U06E4", "U06E7", "U06E8", "U06E9", "U06EA", "U06EB", "U06EC",
      "U06ED", "U06FD", "U06FE", "U08CA", "U08CB", "U08CC", "U08CD", "U08CE",
      "U08CF", "U08D0", "U08D1", "U08D2", "U08D3", "U08D4", "U08D5", "U08D6",
      "U08D7", "U08D8", "U08D9", "U08DA", "U08DB", "U08DC", "U08DD", "U08DE",
      "U08DF", "U08E0", "U08E1", "U08E2", "U08E3", "U08E4", "U08E5", "U08E6",
      "U08E7", "U08E8", "U08E9", "U08EA", "U08EB", "U08EC", "U08ED", "U08EE",
      "U08EF", "U08F0", "U08F1", "U08F2", "U08F3", "U08F4", "U08F5", "U08F6",
      "U08F7", "U08F8", "U08F9", "U08FA", "U08FB", "U08FC", "U08FD", "U08FE",
      "U08FF", "UFBB2", "UFBB3", "UFBB4", "UFBB5", "UFBB6", "UFBB7", "UFBB8",
      "UFBB9", "UFBBA", "UFBBB", "UFBBC", "UFBBD", "UFBBE", "UFBBF", "UFBC0",
      "UFBC1", "UFBC2", "UFBC3", "UFBC4", "UFBC5", "UFBC6", "UFBC7", "UFBC8",
      "UFBC9", "UFBCA", "UFBCB", "UFBCC", "UFBCD", "UFBCE", "UFBCF", "UFBD0",
      "UFBD1", "UFBD2", "UFD3E", "UFD3F", "UFD40", "UFD41", "UFD42", "UFD43",
      "UFD44", "UFD45", "UFD46", "UFD47", "UFD48", "UFD49", "UFD4A", "UFD4B",
      "UFD4C", "UFD4D", "UFD4E", "UFD4F", "UFD90", "UFD91", "UFDC8", "UFDC9",
      "UFDCA", "UFDCB", "UFDCC", "UFDCD", "UFDCE", "UFDCF", "UFDD0", "UFDD1",
      "UFDD2", "UFDD3", "UFDD4", "UFDD5", "UFDD6", "UFDD7", "UFDD8", "UFDD9",
      "UFDDA", "UFDDB", "UFDDC", "UFDDD", "UFDDE", "UFDDF", "UFDE0", "UFDE1",
      "UFDE2", "UFDE3", "UFDE4", "UFDE5", "UFDE6", "UFDE7", "UFDE8", "UFDE9",
      "UFDEA", "UFDEB", "UFDEC", "UFDED", "UFDEE", "UFDEF", "UFDFC", "UFDFD",
      "UFDFE", "UFDFF", "UFE75", "UFEFD", "UFEFE", "UFEFF" }

\* the characters of ArabicRange that \w matches and that are no letters:
\* the digits
ArabicDigits ==
    {
      "U0660", "U0661", "U0662", "U0663", "U0664", "U0665", "U0666", "U0667",
      "U0668", "U0669", "U06F0", "U06F1", "U06F2", "U06F3", "U06F4", "U06F5",
      "U06F6", "U06F7", "U06F8", "U06F9" }

\* the letters of ArabicRange (str.isalpha)
ArabicLetters == (ArabicRange \ ArabicNonWord) \ ArabicDigits

\* U+061F ARABIC QUESTION MARK (punctuation) and U+0660 ARABIC-INDIC DIGIT
\* ZERO (a digit): both lie in the range \u0600-\u06FF
ArabicQuestionMark == "U061F"
ArabicDigitZero    == "U0660"

Digits == {"0","1","2","3","4","5","6","7","8","9"}

\* [a-zA-Z]
AsciiLetters == Range(LowerLetters) \cup Range(UpperLetters)

\* members of the ranges removed by forbidden_patterns: CJK ideographs,
\* hiragana, katakana, hangul syllables, cyrillic
ForeignChars == {"U4E2D", "U7684", "U3042", "U306E", "U30A2", "UD55C", "U0438"}

\* \w of a str pattern: letters and digits of any script, and the underscore;
\* of the scripts outside ASCII, the Arabic ranges and the removed scripts
WordChars ==
    AsciiLetters \cup Digits \cup {"_"} \cup ArabicLetters \cup ArabicDigits
        \cup ForeignChars

\* str.strip()
Strip(s) ==
    LET keep == { j \in 1..Len(s) : s[j] \notin Whitespace }
    IN  IF keep = {} THEN << >> ELSE SubSeq(s, Min(keep), Max(keep))

RECURSIVE SplitFrom(_, _)
\* the words of s at or after position i
SplitFrom(s, i) ==
    LET starts == { j \in i..Len(s) : s[j] \notin Whitespace }
    IN  IF starts = {} THEN << >>
        ELSE LET b == Min(starts)
                 ends == { j \in b..Len(s) : s[j] \in Whitespace }
                 e == IF ends = {} THEN Len(s) + 1 ELSE Min(ends)
             IN  <<SubSeq(s, b, e - 1)>> \o SplitFrom(s, e)

\* str.split()
Split(s) == SplitFrom(s, 1)

\* \b between positions i-1 and i of s
IsWordAt(s, j) == j >= 1 /\ j <= Len(s) /\ s[j] \in WordChars
BoundaryAt(s, i) == IsWordAt(s, i - 1) # IsWordAt(s, i)

\* re.search(r'\b(a1|a2|...)\b', s)
WordAltSearch(s, alts) ==
    \E k \in 1..Len(alts) : \E i \in 1..Len(s) :
        /\ HasAt(s, i, alts[k])
        /\ BoundaryAt(s, i)
        /\ BoundaryAt(s, i + Len(alts[k]))

-----------------------------------------------------------------------------
(* Rational numbers num/den, den > 0, in lowest terms                      *)

RECURSIVE GCD(_, _)
GCD(a, b) == IF b = 0 THEN a ELSE GCD(b, a % b)

Abs(n) == IF n < 0 THEN -n ELSE n

Rat(n, d) ==
    LET g == GCD(Abs(n), d)
    IN  IF n = 0 THEN [num |-> 0, den |-> 1] ELSE [num |-> n \div g, den |-> d \div g]

RatGT(a, b) == a.num * b.den > b.num * a.den
RatAdd(a, b) == Rat(a.num * b.den + b.num * a.den, a.den * b.den)
RatHalf(a) == Rat(a.num, 2 * a.den)

-----------------------------------------------------------------------------
(* Python floats: IEEE 754 binary64, non-negative values m * 2^e with the   *)
(* mantissa m of 53 bits, held as a little-endian sequence of 15-bit limbs; *)
(* every operation rounds its exact result to the nearest such value, ties  *)
(* to the even mantissa                                                    *)

Limb == 2^15

MantissaBits == 53

RECURSIVE BigTrim(_)
\* the number without leading zero limbs
BigTrim(A) ==
    IF A = << >> THEN A
    ELSE IF A[Len(A)] = 0 THEN BigTrim(SubSeq(A, 1, Len(A) - 1))
    ELSE A

RECURSIVE BigAddCarry(_, _, _)
BigAddCarry(A, B, c) ==
    IF A = << >> /\ B = << >> THEN (IF c = 0 THEN << >> ELSE <<c>>)
    ELSE LET a == IF A = << >> THEN 0 ELSE Head(A)
             b == IF B = << >> THEN 0 ELSE Head(B)
             sum == a + b + c
         IN  <<sum % Limb>> \o BigAddCarry(IF A = << >> THEN A ELSE Tail(A),
                                           IF B = << >> THEN B ELSE Tail(B),
                                           sum \div Limb)

BigAdd(A, B) == BigTrim(BigAddCarry(A, B, 0))

RECURSIVE BigMulSmall(_, _, _)
\* A * d + c for a limb d
BigMulSmall(A, d, c) ==
    IF A = << >> THEN (IF c = 0 THEN << >> ELSE <<c>>)
    ELSE LET prod == Head(A) * d + c
         IN  <<prod % Limb>> \o BigMulSmall(Tail(A), d, prod \div Limb)

RECURSIVE BigMul(_, _)
BigMul(A, B) ==
    IF B = << >> THEN << >>
    ELSE BigAdd(BigMulSmall(A, Head(B), 0), <<0>> \o BigMul(A, Tail(B)))

RECURSIVE BigDivRem(_, _)
\* <<A div d, A mod d>> for a limb d
BigDivRem(A, d) ==
    IF A = << >> THEN << << >>, 0 >>
    ELSE LET high == BigDivRem(Tail(A), d)
             cur == high[2] * Limb + Head(A)
         IN  << <<cur \div d>> \o high[1], cur % d >>

RECURSIVE BigGT(_, _)
\* A > B for numbers of the same number of limbs
BigGT(A, B) ==
    IF A = << >> THEN FALSE
    ELSE LET n == Len(A)
         IN  \/ A[n] > B[n]
             \/ A[n] = B[n] /\ BigGT(SubSeq(A, 1, n - 1), SubSeq(B, 1, n - 1))

RECURSIVE BitLenSmall(_)
BitLenSmall(x) == IF x = 0 THEN 0 ELSE 1 + BitLenSmall(x \div 2)

\* the number of bits of a trimmed number
BitLen(A) == IF A = << >> THEN 0 ELSE 15 * (Len(A) - 1) + BitLenSmall(A[Len(A)])

\* <<A div 2^s, whether a bit was shifted out>>
BigShiftRight(A, s) ==
    LET k == IF s \div 15 < Len(A) THEN s \div 15 ELSE Len(A)
        dr == BigDivRem(SubSeq(A, k + 1, Len(A)), 2^(s % 15))
    IN  << BigTrim(dr[1]), dr[2] # 0 \/ \E i \in 1..k : A[i] # 0 >>

\* A * 2^s
BigShiftLeft(A, s) ==
    BigTrim([i \in 1..(s \div 15) |-> 0] \o BigMulSmall(A, 2^(s % 15), 0))

FloatZero == [m |-> << >>, e |-> 0]

\* the float nearest to N * 2^e, or to a value just above it when sticky
FloatRound(N, e, sticky) ==
    LET A == BigTrim(N)
        len == BitLen(A)
    IN  IF A = << >> THEN FloatZero
        ELSE IF len <= MantissaBits
             THEN [m |-> BigShiftLeft(A, MantissaBits - len), e |-> e - (MantissaBits - len)]
        ELSE LET s == len - MantissaBits
                 sh == BigShiftRight(A, s - 1)
                 guard == sh[1][1] % 2 = 1
                 q == BigShiftRight(sh[1], 1)[1]
                 up == guard /\ (sh[2] \/ sticky \/ q[1] % 2 = 1)
                 r == IF up THEN BigAdd(q, <<1>>) ELSE q
             IN  IF BitLen(r) > MantissaBits
                 THEN [m |-> BigShiftRight(r, 1)[1], e |-> e + s + 1]
                 ELSE [m |-> r, e |-> e + s]

\* n / d of two ints, and the decimal literal n/d: the float nearest to the
\* quotient
FloatDiv(n, d) ==
    LET dr == BigDivRem(<<0, 0, 0, 0, 0, n>>, d)
    IN  FloatRound(dr[1], -75, dr[2] # 0)

\* x * y
FloatMul(x, y) == FloatRound(BigMul(x.m, y.m), x.e + y.e, FALSE)

\* x + y
FloatAdd(x, y) ==
    IF x.m = << >> THEN y
    ELSE IF y.m = << >> THEN x
    ELSE LET e == IF x.e < y.e THEN x.e ELSE y.e
         IN  FloatRound(BigAdd(BigShiftLeft(x.m, x.e - e), BigShiftLeft(y.m, y.e - e)),
                        e, FALSE)

\* x / 2
FloatHalf(x) == IF x.m = << >> THEN x ELSE [m |-> x.m, e |-> x.e - 1]

\* x > y
FloatGT(x, y) ==
    IF x.m = << >> THEN FALSE
    ELSE IF y.m = << >> THEN TRUE
    ELSE x.e > y.e \/ (x.e = y.e /\ BigGT(x.m, y.m))

-----------------------------------------------------------------------------
(* AdvancedLanguageDetector                                                *)

ARABIC_EGYPTIAN == "ar_EG"
ARABIC_FUSHA    == "ar"
ENGLISH         == "en"
MIXED           == "mixed"
UNKNOWN         == "unknown"

LanguageType == {ARABIC_EGYPTIAN, ARABIC_FUSHA, ENGLISH, MIXED, UNKNOWN}

egyptian_patterns ==
  <<
    << <<"U0627","U0632","U064A","U0643">>,
       <<"U0625","U0632","U064A","U0643">>,
       <<"U0627","U0632","U0627","U0649">>,
       <<"U0625","U0632","U0627","U0649">>,
       <<"U0627","U064A","U0647">>,
       <<"U0623","U064A","U0647">> >>,
    << <<"U0639","U0627","U0645","U0644"," ","U0627","U064A","U0647">>,
       <<"U0639","U0627","U0645","U0644","U064A","U0646"," ","U0627","U064A","U0647">>,
       <<"U0639","U0627","U0645","U0644"," ","U0627","U064A","U0647"," ","U064A","U0627","U0633","U0637","U0627">> >>,
    << <<"U062A","U0645","U0627","U0645">>,
       <<"U0645","U0627","U0634","U064A">>,
       <<"U062E","U0644","U0627","U0635">>,
       <<"U0628","U0642","U0627">>,
       <<"U064A","U0627"," ","U0639","U0645">>,
       <<"U064A","U0627"," ","U0628","U0627","U0634","U0627">> >>,
    << <<"U0645","U0639","U0644","U0634">>,
       <<"U064A","U0627"," ","U0631","U064A","U062A">>,
       <<"U064A","U0639","U0646","U064A">>,
       <<"U0627","U0635","U0644">>,
       <<"U0628","U0631","U0636","U0647">>,
       <<"U0639","U0644","U0634","U0627","U0646">> >>,
    << <<"U0628","U0635">>,
       <<"U0627","U0633","U0645","U0639">>,
       <<"U0642","U0648","U0644">>,
       <<"U0631","U0648","U062D">>,
       <<"U062E","U0634">>,
       <<"U062C","U0631","U0628">>,
       <<"U0634","U0648","U0641">> >>,
    << <<"U0641","U064A","U0646">>,
       <<"U0627","U0645","U062A","U0649">>,
       <<"U0644","U064A","U0647">>,
       <<"U0627","U0632","U0627","U064A">>,
       <<"U0643","U0627","U0645">>,
       <<"U0642","U062F"," ","U0627","U064A","U0647">> >>
  >>

egyptian_education_terms ==
    { <<"U0643","U0644","U064A","U0647">>,
      <<"U062C","U0627","U0645","U0639","U0647">>,
      <<"U062F","U0643","U062A","U0648","U0631">>,
      <<"U0645","U062F","U0631","U0633","U0647">>,
      <<"U0645","U0639","U0647","U062F">>,
      <<"U062A","U0648","U062C","U064A","U0647","U064A">>,
      <<"U062B","U0627","U0646","U0648","U064A","U0647">>,
      <<"U0627","U0628","U062A","U062F","U0627","U0626","U064A">>,
      <<"U0627","U0639","U062F","U0627","U062F","U064A">>,
      <<"U0645","U062D","U0627","U0636","U0631","U0647">>,
      <<"U0627","U0645","U062A","U062D","U0627","U0646">>,
      <<"U0645","U0646","U0647","U062C">>,
      <<"U0645","U0627","U062F","U0647">>,
      <<"U0633","U0643","U0627","U0634","U0646">> }

\* ['hi', 'ok', 'yes', 'no', 'hey', 'hello']
TrivialTokens ==
    { <<"h","i">>, <<"o","k">>, <<"y","e","s">>, <<"n","o">>, <<"h","e","y">>, <<"h","e","l","l","o">> }

\* self.compiled_patterns: how many of the six patterns are found in text
pattern_matches(t) ==
    Cardinality({ k \in 1..Len(egyptian_patterns) : WordAltSearch(t, egyptian_patterns[k]) })

\* _calculate_egyptian_score: (matches / 6) * 0.7 + (education words /
\* words) * 0.3 in float arithmetic
calculate_egyptian_score(t) ==
    IF t = << >> THEN FloatZero
    ELSE LET words == Split(t)
             p == pattern_matches(t)
             e == Cardinality({ k \in 1..Len(words) : words[k] \in egyptian_education_terms })
             w == IF Len(words) > 1 THEN Len(words) ELSE 1
             pattern_score == FloatDiv(p, Len(egyptian_patterns))
             education_score == FloatDiv(e, w)
         IN  FloatAdd(FloatMul(pattern_score, FloatDiv(7, 10)),
                      FloatMul(education_score, FloatDiv(3, 10)))

CountIn(t, S) == Cardinality({ j \in 1..Len(t) : t[j] \in S })

\* the early exit `egyptian_score > 0.6` lowered to `> 0.2`
EarlyExitThreshold_low == FloatDiv(2, 10)

\* `if egyptian_score > 0.6`
EarlyExitThreshold == FloatDiv(6, 10)

\* detect_with_confidence: [lang, conf], conf a float
detect_with_confidence(t) ==
    IF t = << >> THEN [lang |-> UNKNOWN, conf |-> FloatZero]
    ELSE
    LET text_lower == Strip(Lower(t))
        egyptian_score == calculate_egyptian_score(text_lower)
        arabic_chars  == CountIn(t, ArabicRange)
        english_chars == CountIn(t, AsciiLetters)
        \* [^\w\s]
        other_chars   == Cardinality({ j \in 1..Len(t) :
                                         t[j] \notin WordChars /\ t[j] \notin Whitespace })
        sum == arabic_chars + english_chars + other_chars
        total_chars == IF sum > 1 THEN sum ELSE 1
        arabic_ratio  == FloatDiv(arabic_chars, total_chars)
        english_ratio == FloatDiv(english_chars, total_chars)
    IN  IF text_lower \in TrivialTokens
             THEN [lang |-> ENGLISH, conf |-> FloatDiv(1, 1)]
        ELSE IF FloatGT(egyptian_score, EarlyExitThreshold)
             THEN [lang |-> ARABIC_EGYPTIAN, conf |-> egyptian_score]
        ELSE IF FloatGT(arabic_ratio, FloatDiv(5, 10))
             THEN IF FloatGT(egyptian_score, FloatDiv(3, 10))
                  THEN [lang |-> ARABIC_EGYPTIAN,
                        conf |-> FloatHalf(FloatAdd(arabic_ratio, egyptian_score))]
                  ELSE [lang |-> ARABIC_FUSHA, conf |-> arabic_ratio]
        ELSE IF FloatGT(english_ratio, FloatDiv(5, 10))
             THEN [lang |-> ENGLISH, conf |-> english_ratio]
        ELSE IF FloatGT(arabic_ratio, FloatDiv(2, 10)) /\ FloatGT(english_ratio, FloatDiv(2, 10))
             THEN [lang |-> MIXED, conf |-> FloatHalf(FloatAdd(arabic_ratio, english_ratio))]
        ELSE IF english_chars > arabic_chars
             THEN [lang |-> ENGLISH, conf |-> FloatDiv(4, 10)]
        ELSE IF arabic_chars > english_chars
             THEN [lang |-> ARABIC_EGYPTIAN, conf |-> FloatDiv(4, 10)]
        ELSE [lang |-> UNKNOWN, conf |-> FloatDiv(5, 10)]

-----------------------------------------------------------------------------
(* LLMService._validate_urls_against_context                               *)

\* '[Link removed - not in database]'
LinkRemoved ==
    <<"[","L","i","n","k"," ","r","e","m","o","v","e","d"," ","-"," ",
      "n","o","t"," ","i","n"," ","d","a","t","a","b","a","s","e","]">>

\* '[Link not available in database]'
LinkNotAvailable ==
    <<"[","L","i","n","k"," ","n","o","t"," ","a","v","a","i","l","a","b","l","e"," ",
      "i","n"," ","d","a","t","a","b","a","s","e","]">>

\* normalize_url with the lowercasing left out
normalize_url_nolower(u) == RStrip(RStrip(u, TrailingPunct), {"/"})

\* normalize_url: trailing [.,;:!)]+ removed, then rstrip('/'), then lower()
normalize_url(u) == Lower(RStrip(RStrip(u, TrailingPunct), {"/"}))

\* A document is a sequence of field values (the dict's values in item
\* order); a value is [str |-> is it a str, val |-> its characters].
\* `if value and isinstance(value, str)` keeps the non-empty str values.
valid_urls(ctx) ==
    UNION { UNION { IF ctx[d][f].str /\ ctx[d][f].val # << >>
                    THEN Range(FindUrls(ctx[d][f].val))
                    ELSE {}
                    : f \in DOMAIN ctx[d] }
            : d \in DOMAIN ctx }

normalized_valid_urls(ctx) == { normalize_url(u) : u \in valid_urls(ctx) }

RECURSIVE ReplaceHallucinated(_, _, _, _)
\* the loop `for url in response_urls` of lines 202-209
ReplaceHallucinated(validated_text, response_urls, k, allowed) ==
    IF k > Len(response_urls) THEN validated_text
    ELSE LET url == response_urls[k]
         IN  IF normalize_url(url) \notin allowed
             THEN ReplaceHallucinated(
                      StrReplace(validated_text, url, LinkNotAvailable),
                      response_urls, k + 1, allowed)
             ELSE ReplaceHallucinated(validated_text, response_urls, k + 1, allowed)

validate_urls_against_context(t, ctx) ==
    IF ctx = << >> THEN ReSubUrls(t, LinkRemoved)
    ELSE LET response_urls == FindUrls(t)
         IN  IF response_urls = << >> THEN t
             ELSE ReplaceHallucinated(t, response_urls, 1, normalized_valid_urls(ctx))

-----------------------------------------------------------------------------
(* Inputs of the validator                                                 *)

MaxTextTokens == 4   \* tokens concatenated into a generated text
MaxCtxTokens  == 2   \* tokens concatenated into a context field
MaxUrlBody    == 2   \* characters after the scheme of a context URL
MaxPunctRun   == 2   \* trailing punctuation characters appended to a URL

RECURSIVE Flatten(_)
Flatten(ss) == IF ss = << >> THEN << >> ELSE Head(ss) \o Flatten(Tail(ss))

SeqsUpTo(S, n) == UNION { [1..k -> S] : k \in 0..n }

UrlA == SchemeHttp \o <<"a">>
UrlB == SchemeHttp \o <<"b">>

TextTokens == { UrlA, UrlB, <<"b">>, <<" ">> }
CtxTokens  == { UrlA, UrlB, <<"b">> }

StrField(s) == [str |-> TRUE, val |-> s]
\* a non-str value of a document (a number, None)
OtherField  == [str |-> FALSE, val |-> << >>]

\* texts and contexts where one URL may occur inside another
OverlapTexts    == { Flatten(ts) : ts \in SeqsUpTo(TextTokens, MaxTextTokens) }
OverlapContexts ==
    { << >> } \cup
    { << <<OtherField, StrField(Flatten(ts))>> >> : ts \in SeqsUpTo(CtxTokens, MaxCtxTokens) }

SwapCaseChar(c) ==
    IF \E i \in 1..Len(LowerLetters) : LowerLetters[i] = c
    THEN UpperLetters[CHOOSE i \in 1..Len(LowerLetters) : LowerLetters[i] = c]
    ELSE LowerChar(c)

\* u with the case of the characters at the positions M swapped
CaseVariant(u, M) == [i \in 1..Len(u) |-> IF i \in M THEN SwapCaseChar(u[i]) ELSE u[i]]

BodyChars == {"a", "B", "/", "."}
PunctChars == {".", ")"}

\* a context URL, and generated texts that repeat it in another letter case,
\* with an optional trailing slash and a run of trailing punctuation
VariantContextUrls ==
    { SchemeHttps \o b : b \in SeqsUpTo(BodyChars, MaxUrlBody) \ { << >> } }

VariantTexts(u) ==
    { pre \o CaseVariant(u, { Len(SchemeHttps) + i : i \in M }) \o sl \o pr \o suf :
        pre \in { << >>, <<"(">> },
        M \in SUBSET (1..MaxUrlBody),
        sl \in { << >>, <<"/">> },
        pr \in SeqsUpTo(PunctChars, MaxPunctRun),
        suf \in { << >>, <<" ", "x">> } }

\* the retriever's variables when no search is modelled
NoSearch ==
    /\ corpus = ""
    /\ the_query = << >>
    /\ stored_rows = << >>
    /\ the_limit = 0
    /\ available = FALSE
    /\ encoded = << >>
    /\ rpc = [ok |-> FALSE, data |-> << >>]
    /\ store_ok = FALSE
    /\ results = << >>
    /\ called = ""

\* the variables of the server when no server is modelled
NoServer ==
    /\ at = << >>
    /\ loop = 0

\* the variables of a direct call when none is modelled
NoCall ==
    /\ dpc = "off"
    /\ arg_text = << >>
    /\ returned = << >>

\* the orchestrator's variables before any request is received
NoRequest ==
    /\ message = << >>
    /\ preferred_language = ""
    /\ session_id = ""
    /\ detected = << >>
    /\ user_language = ""
    /\ conversation_history = << >>
    /\ refined_message = << >>
    /\ response = << >>
    /\ result = << >>
    /\ caught = FALSE
    /\ attempt = 0
    /\ completion_calls = << >>
    /\ searches = << >>
    /\ conversations_before = << >>
    /\ clock = 0

UrlInit ==
    /\ upc = "input"
    /\ spc = "off"
    /\ NoSearch
    /\ NoServer
    /\ validated = << >>
    /\ pc = "off"
    /\ conversations = << >>
    /\ NoRequest
    /\ NoCall
    /\ \/ /\ text \in OverlapTexts
          /\ context \in OverlapContexts
       \/ \E u \in VariantContextUrls :
             /\ context = << <<StrField(<<"s","e","e"," ">> \o u)>> >>
             /\ text \in VariantTexts(u)

\* one call of _validate_urls_against_context(text, context)
ValidateUrls ==
    /\ upc = "input"
    /\ validated' = validate_urls_against_context(text, context)
    /\ upc' = "done"
    /\ UNCHANGED <<text, context>>
    /\ UNCHANGED <<cvars, svars, pvars, lvars>>

UrlNext == ValidateUrls

SpecUrl == UrlInit /\ [][UrlNext]_vars

-----------------------------------------------------------------------------
(* Claims about the validator                                              *)

IsAllowed(u, ctx) == normalize_url(u) \in normalized_valid_urls(ctx)

UrlOfSpan(s, sp) == SubSeq(s, sp[1], sp[1] + sp[2] - 1)

\* the URL occurrences of t that the context does not allow
HallucinatedSpans(t, ctx) ==
    SelectSeq(UrlSpans(t), LAMBDA sp : ~IsAllowed(UrlOfSpan(t, sp), ctx))

\* the characters of t that lie in no URL occurrence
OutsideUrls(t) ==
    LET sp == UrlSpans(t)
        Covered(i) == \E k \in 1..Len(sp) : sp[k][1] <= i /\ i < sp[k][1] + sp[k][2]
        idx == [i \in 1..Len(t) |-> i]
        free == SelectSeq(idx, LAMBDA i : ~Covered(i))
    IN  [k \in 1..Len(free) |-> t[free[k]]]

\* C1: with a non-empty context, the returned text contains no URL-shaped
\* substring whose normalized form is absent from the normalized allow-list.
C1_NoUnlistedUrlInOutput ==
    (upc = "done" /\ context # << >>) =>
        \A u \in Range(FindUrls(validated)) : IsAllowed(u, context)

\* C2: with a non-empty context, the returned text is the generated text
\* with exactly the non-allow-listed URL occurrences replaced by the
\* placeholder; every allow-listed occurrence is unchanged.
C2_AllowedUrlsUntouched ==
    (upc = "done" /\ context # << >>) =>
        validated = ReSubSpans(text, HallucinatedSpans(text, context), 1, 1,
                               LinkNotAvailable)

\* C3: with an empty context, the returned text has no URL-shaped substring,
\* contains none of the URLs of the generated text, and apart from the
\* placeholders is the generated text outside its URLs.
C3_EmptyContextStripsAllUrls ==
    (upc = "done" /\ context = << >>) =>
        /\ FindUrls(validated) = << >>
        /\ \A u \in Range(FindUrls(text)) : ~Contains(validated, u)
        /\ StrReplace(validated, LinkRemoved, << >>) = OutsideUrls(text)

C3_Witness ==
    /\ upc = "done"
    /\ context = << >>
    /\ Len(FindUrls(text)) >= 2
    /\ OutsideUrls(text) # << >>
    /\ Contains(validated, LinkRemoved)

\* m is u in some letter case, optionally followed by a slash, then by a
\* run of the characters . , ; : ! )
IsVariantOf(m, u) ==
    /\ Len(m) >= Len(u)
    /\ Lower(SubSeq(m, 1, Len(u))) = Lower(u)
    /\ LET rest == SubSeq(m, Len(u) + 1, Len(m))
       IN  \/ \A i \in 1..Len(rest) : rest[i] \in TrailingPunct
           \/ /\ Len(rest) >= 1
              /\ rest[1] = "/"
              /\ \A i \in 2..Len(rest) : rest[i] \in TrailingPunct

EndsInPunct(u) == Len(u) > 0 /\ u[Len(u)] \in TrailingPunct

\* C4 as stated: a text all of whose URLs are such variants of URLs of the
\* context is returned unmodified.
C4_AnyVariantAccepted ==
    (/\ upc = "done"
     /\ context # << >>
     /\ \A m \in Range(FindUrls(text)) :
            \E u \in valid_urls(context) : IsVariantOf(m, u)) =>
        validated = text

\* C4 amended: the same for the URLs of the context that do not themselves
\* end in one of the characters . , ; : ! )
C4_VariantAccepted ==
    (/\ upc = "done"
     /\ context # << >>
     /\ \A m \in Range(FindUrls(text)) :
            \E u \in valid_urls(context) : ~EndsInPunct(u) /\ IsVariantOf(m, u)) =>
        validated = text

C4_Witness ==
    /\ upc = "done"
    /\ validated = text
    /\ \E m \in Range(FindUrls(text)) :
          \E u \in valid_urls(context) :
             /\ ~EndsInPunct(u)
             /\ IsVariantOf(m, u)
             /\ SubSeq(m, 1, Len(u)) # u
             /\ Len(m) >= Len(u) + 2
             /\ m[Len(u) + 1] = "/"

-----------------------------------------------------------------------------
(* Fixed texts of the services; non-ASCII characters are written Uxxxx     *)

\* error_messages of LLMService.generate_response
llm_error_messages_table(lang) ==
    CASE lang = ARABIC_EGYPTIAN ->
        <<"U0645","U0639","U0644","U0634","U060C"," ","U0641","U064A","U0647"," ","U0645","U0634","U0643","U0644",
        "U0629","."," ","U062D","U0627","U0648","U0644"," ","U062A","U0627","U0646","U064A",".">>
      [] lang = ARABIC_FUSHA ->
        <<"U0639","U0630","U0631","U0627","U064B","U060C"," ","U062D","U062F","U062B"," ","U062E","U0637","U0623",
        ".">>
      [] lang = ENGLISH ->
        <<"S","o","r","r","y",","," ","a","n"," ","e","r","r","o",
        "r"," ","o","c","c","u","r","r","e","d",".">>

\* llm_error_messages.get(lang, llm_error_messages[ARABIC_EGYPTIAN])
llm_error_messages(lang) ==
    IF lang \in {ARABIC_EGYPTIAN, ARABIC_FUSHA, ENGLISH} THEN llm_error_messages_table(lang)
    ELSE llm_error_messages_table(ARABIC_EGYPTIAN)

\* messages of ChatService._generate_fallback_response
fallback_messages_table(lang) ==
    CASE lang = ARABIC_EGYPTIAN ->
        <<"U0645","U0639","U0644","U0634"," ","U064A","U0627"," ","U0628","U0627","U0634","U0627","U060C"," ",
        "U0645","U0641","U064A","U0634"," ","U0631","U0648","U062F"," ","U0645","U0627","U0628"," ","U0645",
        "U062A","U0627","U062D"," ","U0644","U0644","U0645","U062C","U0627","U0644"," ","U062F","U0647"," ",
        "U062F","U0644","U0648","U0642","U062A","U064A",".">>
      [] lang = ARABIC_FUSHA ->
        <<"U0639","U0630","U0631","U0627","U064B","U060C"," ","U0644","U0627"," ","U064A","U0648","U062C","U062F",
        " ","U0631","U0648","U062F","U0645","U0627","U0628"," ","U0645","U062A","U0627","U062D"," ","U0644",
        "U0647","U0630","U0627"," ","U0627","U0644","U0645","U062C","U0627","U0644"," ","U062D","U0627","U0644",
        "U064A","U0627","U064B",".">>
      [] lang = ENGLISH ->
        <<"S","o","r","r","y",","," ","n","o"," ","r","o","a","d",
        "m","a","p"," ","a","v","a","i","l","a","b","l","e"," ",
        "f","o","r"," ","t","h","i","s"," ","f","i","e","l","d",
        " ","r","i","g","h","t"," ","n","o","w",".">>

\* fallback_messages.get(lang, fallback_messages[ARABIC_EGYPTIAN])
fallback_messages(lang) ==
    IF lang \in {ARABIC_EGYPTIAN, ARABIC_FUSHA, ENGLISH} THEN fallback_messages_table(lang)
    ELSE fallback_messages_table(ARABIC_EGYPTIAN)

\* error_messages of ChatService._generate_error_response
chat_error_messages_table(lang) ==
    CASE lang = ARABIC_EGYPTIAN ->
        <<"U0641","U064A","U0647"," ","U0645","U0634","U0643","U0644","U0629"," ","U062F","U0644","U0648","U0642",
        "U062A","U064A","."," ","U062D","U0627","U0648","U0644"," ","U062A","U0627","U0646","U064A",".">>
      [] lang = ARABIC_FUSHA ->
        <<"U062D","U062F","U062B"," ","U062E","U0637","U0623","."," ","U062D","U0627","U0648","U0644"," ",
        "U0645","U0631","U0629"," ","U0623","U062E","U0631","U0649",".">>
      [] lang = ENGLISH ->
        <<"A","n"," ","e","r","r","o","r"," ","o","c","c","u","r",
        "r","e","d","."," ","T","r","y"," ","a","g","a","i","n",
        ".">>

\* chat_error_messages.get(lang, chat_error_messages[ARABIC_EGYPTIAN])
chat_error_messages(lang) ==
    IF lang \in {ARABIC_EGYPTIAN, ARABIC_FUSHA, ENGLISH} THEN chat_error_messages_table(lang)
    ELSE chat_error_messages_table(ARABIC_EGYPTIAN)

\* the f-strings of _format_roadmap_context
QuestionArPrefix == <<"U0645","U0627"," ","U0647","U0648"," ","U0645","U0633","U0627","U0631"," ">>
QuestionArSuffix == <<"U061F">>
AnswerArInfix == <<"\n","\n","U0627","U0644","U0631","U0627","U0628","U0637",":"," ">>
QuestionEnPrefix == <<"W","h","a","t"," ","i","s"," ","t","h","e"," ">>
QuestionEnSuffix == <<" ","r","o","a","d","m","a","p","?">>
AnswerEnInfix == <<"\n","\n","L","i","n","k",":"," ">>

\* the replacement of 'however'
HoweverAr == <<"U0644","U0643","U0646">>

\* roadmap_keywords of _detect_roadmap_request: per pattern its alternatives,
\* each a sequence of literal pieces separated by \s* (gap 0) or \s+ (gap 1)
roadmap_keywords ==
  <<
    << [pieces |-> <<<<"U0645","U0633","U0627","U0631">>>>, gap |-> 0],
       [pieces |-> <<<<"U0631","U0648","U062F">>, <<"U0645","U0627","U0628">>>>, gap |-> 0],
       [pieces |-> <<<<"U062E","U0631","U064A","U0637","U0629">>>>, gap |-> 0],
       [pieces |-> <<<<"U0637","U0631","U064A","U0642">>>>, gap |-> 0] >>,
    << [pieces |-> <<<<"U0627","U0632","U0627","U064A">>, <<"U0627","U062A","U0639","U0644","U0645">>>>, gap |-> 1],
       [pieces |-> <<<<"U0643","U064A","U0641">>, <<"U0627","U062A","U0639","U0644","U0645">>>>, gap |-> 1],
       [pieces |-> <<<<"U0639","U0627","U064A","U0632">>, <<"U0627","U062A","U0639","U0644","U0645">>>>, gap |-> 1] >>,
    << [pieces |-> <<<<"r","o","a","d","m","a","p">>>>, gap |-> 0],
       [pieces |-> <<<<"r","o","a","d">>, <<"m","a","p">>>>, gap |-> 0],
       [pieces |-> <<<<"p","a","t","h">>>>, gap |-> 0],
       [pieces |-> <<<<"g","u","i","d","e">>>>, gap |-> 0] >>,
    << [pieces |-> <<<<"h","o","w">>, <<"t","o">>, <<"l","e","a","r","n">>>>, gap |-> 1],
       [pieces |-> <<<<"l","e","a","r","n","i","n","g">>, <<"p","a","t","h">>>>, gap |-> 1] >>
  >>

-----------------------------------------------------------------------------
(* LLMService: foreign-character cleaning and query contextualization      *)

\* the forbidden_words that the model's alphabet can spell
forbidden_words == << <<"U7684">>, <<"U306E">>, <<"U0438">> >>

RECURSIVE CollapseFrom(_, _)
\* re.sub(r'\s+', ' ', s) from position i on
CollapseFrom(s, i) ==
    LET ws == { j \in i..Len(s) : s[j] \in Whitespace }
    IN  IF ws = {} THEN SubSeq(s, i, Len(s))
        ELSE LET b == Min(ws)
                 nonws == { j \in b..Len(s) : s[j] \notin Whitespace }
                 e == IF nonws = {} THEN Len(s) + 1 ELSE Min(nonws)
             IN  SubSeq(s, i, b - 1) \o <<" ">> \o CollapseFrom(s, e)

RECURSIVE RemoveWords(_, _, _)
RemoveWords(s, ws, k) ==
    IF k > Len(ws) THEN s ELSE RemoveWords(StrReplace(s, ws[k], << >>), ws, k + 1)

\* _clean_foreign_characters; the last re.sub (three newlines) finds nothing
\* once every whitespace run is a single space
clean_foreign_characters(t) ==
    LET ranges == SelectSeq(t, LAMBDA c : c \notin ForeignChars)
        words == RemoveWords(ranges, forbidden_words, 1)
        r1 == StrReplace(words, <<"c","o","v","e","r","a","g","e">>, << >>)
        r2 == StrReplace(r1, <<"h","o","w","e","v","e","r">>, HoweverAr)
        r3 == StrReplace(r2, <<"m","o","r","e","o","v","e","r">>, << >>)
    IN  Strip(CollapseFrom(r3, 1))

\* lines 429-431 of contextualize_query: strip, then drop every quote character
strip_quotes(content) ==
    SelectSeq(Strip(content), LAMBDA c : c \notin {"\"", "'"})

-----------------------------------------------------------------------------
(* ChatService: pure parts                                                 *)

\* the resolution with the preference left out
determine_response_language_detected_only(det, preferred) ==
    IF det \in {ARABIC_EGYPTIAN, ARABIC_FUSHA, ENGLISH} THEN det
    ELSE ARABIC_EGYPTIAN

\* _determine_response_language
determine_response_language(det, preferred) ==
    IF preferred # "auto" /\ preferred \in LanguageType THEN preferred
    ELSE IF det \in {ARABIC_EGYPTIAN, ARABIC_FUSHA, ENGLISH} THEN det
    ELSE ARABIC_EGYPTIAN

RECURSIVE PiecesMatchAt(_, _, _, _, _)
\* pieces[k..] joined by \s* (gap 0) or \s+ (gap 1) match s at position i
PiecesMatchAt(s, i, pieces, k, gap) ==
    /\ HasAt(s, i, pieces[k])
    /\ \/ k = Len(pieces)
       \/ LET b == i + Len(pieces[k])
          IN  \E n \in gap..(Len(s) - b + 1) :
                 /\ \A j \in b..(b + n - 1) : s[j] \in Whitespace
                 /\ PiecesMatchAt(s, b + n, pieces, k + 1, gap)

\* _detect_roadmap_request: the lowercased message, or None
IsRoadmapRequest(m) ==
    LET message_lower == Lower(m)
    IN  \E p \in 1..Len(roadmap_keywords) :
            \E a \in 1..Len(roadmap_keywords[p]) :
                \E i \in 1..Len(message_lower) :
                    PiecesMatchAt(message_lower, i, roadmap_keywords[p][a].pieces, 1,
                                  roadmap_keywords[p][a].gap)

RoadmapKeys == {"title", "description", "url"}

\* roadmap['title'], roadmap['description'] or roadmap['url'] raises KeyError
FormatRaises(roadmaps) ==
    \E k \in 1..Len(roadmaps) : ~(RoadmapKeys \subseteq DOMAIN roadmaps[k])

\* _format_roadmap_context: one document of four string fields per roadmap
format_roadmap_context(roadmaps) ==
    [k \in 1..Len(roadmaps) |->
        LET r == roadmaps[k]
        IN  << [str |-> TRUE, val |-> QuestionArPrefix \o r.title \o QuestionArSuffix],
               [str |-> TRUE, val |-> r.description \o AnswerArInfix \o r.url],
               [str |-> TRUE, val |-> QuestionEnPrefix \o r.title \o QuestionEnSuffix],
               [str |-> TRUE, val |-> r.description \o AnswerEnInfix \o r.url] >>]

FallbackConfidence == Rat(8, 10)
ErrorConfidence == Rat(0, 1)
LLMConfidence == Rat(9, 10)
LLMErrorConfidence == Rat(3, 10)

\* _generate_fallback_response
generate_fallback_response(lang, sid, det, now) ==
    [response |-> fallback_messages(lang),
     session_id |-> sid,
     user_language |-> lang,
     detected_language |-> det,
     response_language |-> lang,
     is_egyptian |-> (lang = ARABIC_EGYPTIAN),
     confidence |-> FallbackConfidence,
     timestamp |-> now]

\* the error response with is_egyptian taken from the default of the
\* response model instead of the preference
generate_error_response_default_flag(preferred, sid, now) ==
    LET target_lang == IF preferred = "auto" THEN "ar_EG" ELSE preferred
    IN  [response |-> chat_error_messages(target_lang),
         session_id |-> sid,
         user_language |-> preferred,
         response_language |-> preferred,
         is_egyptian |-> FALSE,
         confidence |-> ErrorConfidence,
         timestamp |-> now]

\* _generate_error_response
generate_error_response(preferred, sid, now) ==
    LET target_lang == IF preferred = "auto" THEN "ar_EG" ELSE preferred
    IN  [response |-> chat_error_messages(target_lang),
         session_id |-> sid,
         user_language |-> preferred,
         response_language |-> preferred,
         is_egyptian |-> (preferred = "ar_EG"),
         confidence |-> ErrorConfidence,
         timestamp |-> now]

-----------------------------------------------------------------------------
(* ChatService.process_message as a state machine                          *)

MaxPriorTurns == 11
MaxAttempts == 3
HistoryLimit == 8

DigitSeq == <<"0","1","2","3","4","5","6","7","8","9">>

\* the k-th row of table "conversations" stored before the request: one row
\* of another session, then the turns of session "s1"; from the fourth row
\* on, neighbouring rows are stored in the reverse of their creation order
PriorRow(k) ==
    IF k = 1
    THEN [session_id |-> "s2", role |-> "user", content |-> <<"x">>,
          language |-> "en", created_at |-> 1]
    ELSE IF k = 2
    THEN [session_id |-> "s1", role |-> "user", content |-> <<"a","i">>,
          language |-> "en", created_at |-> 2]
    ELSE IF k = 3
    THEN [session_id |-> "s1", role |-> "assistant", content |-> <<"a","i"," ","i","s">>,
          language |-> "en", created_at |-> 3]
    ELSE [session_id |-> "s1",
          role |-> IF k % 2 = 0 THEN "assistant" ELSE "user",
          content |-> <<"t", DigitSeq[((k \div 10) % 10) + 1], DigitSeq[(k % 10) + 1]>>,
          language |-> "en",
          created_at |-> IF k % 2 = 0 THEN k + 1 ELSE k - 1]

\* rows of table "conversations" stored before the request
PriorConversation == [k \in 1..MaxPriorTurns |-> PriorRow(k)]

NewSessionId == "uuid4"

Messages ==
    { <<"o","k">>,
      <<"a","i"," ","r","o","a","d","m","a","p">>,
      <<"U0627","U0632","U064A","U0643"," ","U0639","U0627","U0645","U0644"," ",
        "U0627","U064A","U0647">>,
      <<"?","?">> }

SessionArgs == {"", "s1"}

Preferences == {"auto", "ar_EG", "en", "mixed", "fr"}

\* what client.chat.completions.create does in contextualize_query
Rewrites ==
    { [kind |-> "ok", content |-> <<"\"","a","i"," ","r","o","a","d","m","a","p","\""," ">>],
      [kind |-> "ok", content |-> <<"w","h","a","t"," ","i","s"," ","a","i">>],
      [kind |-> "ok", content |-> <<"w","h","a","t","'","s"," ","a","i">>],
      [kind |-> "connection", content |-> << >>] }

\* transient errors named by the retry decorator
RetryableErrors == {"rate_limit", "connection", "timeout"}

\* the URL of a stored roadmap with a word of the replacements table in it
UrlCoverage == SchemeHttp \o <<"x","/","c","o","v","e","r","a","g","e">>

\* what client.chat.completions.create does in generate_response
Completions ==
    { [kind |-> "ok", content |-> <<"o","k"," ","h","o","w","e","v","e","r"," "," ","x">>],
      [kind |-> "ok", content |-> <<"g","o"," ">> \o UrlA \o <<" ">> \o UrlB],
      [kind |-> "ok", content |-> <<"s","e","e"," ">> \o UrlCoverage],
      [kind |-> "rate_limit", content |-> << >>],
      [kind |-> "connection", content |-> << >>],
      [kind |-> "timeout", content |-> << >>],
      [kind |-> "terminal", content |-> << >>] }

\* what RoadmapService.search_roadmaps returns
RoadmapResults ==
    { << >>,
      << [title |-> <<"A","I">>, description |-> <<"a","i">>, url |-> UrlA,
          similarity |-> Rat(1, 1)] >>,
      << [title |-> <<"Q","A">>, description |-> <<"q","a">>, url |-> UrlCoverage,
          similarity |-> Rat(1, 1)] >>,
      << [title |-> <<"A","I">>, similarity |-> Rat(7, 10)] >> }

\* what RAGService.search_faqs returns; a document is the sequence of its
\* field values
FaqResults ==
    { << >>,
      << << OtherField, StrField(<<"a","i","?">>), StrField(<<"s","e","e"," ">> \o UrlA) >> >> }

RECURSIVE SortDesc(_)
\* order("created_at", desc=True)
SortDesc(rows) ==
    IF rows = << >> THEN << >>
    ELSE LET top == Max({ rows[k].created_at : k \in 1..Len(rows) })
             i == Min({ k \in 1..Len(rows) : rows[k].created_at = top })
         IN  <<rows[i]>> \o SortDesc(SubSeq(rows, 1, i - 1) \o SubSeq(rows, i + 1, Len(rows)))

\* the rows left in the order of the fetch
Reverse_kept(s) == s

\* list(reversed(result.data))
Reverse(s) == [k \in 1..Len(s) |-> s[Len(s) + 1 - k]]

\* the query of _get_conversation_history and the reversal of its rows
get_conversation_history(table, sid, limit) ==
    LET mine == SelectSeq(table, LAMBDA r : r.session_id = sid)
        newest == SubSeq(SortDesc(mine), 1, Min({limit, Len(mine)}))
    IN  Reverse([k \in 1..Len(newest) |->
                    [role |-> newest[k].role, content |-> newest[k].content]])

\* the body of generate_response for one outcome of the completion call:
\* every exception is caught by the except branch of line 98
generate_response_body(outcome, ctx, lang) ==
    IF outcome.kind = "ok"
    THEN [raised |-> FALSE, kind |-> "ok",
          value |-> [text |-> validate_urls_against_context(
                                  clean_foreign_characters(outcome.content), ctx),
                     confidence |-> LLMConfidence,
                     tokens_used |-> 1]]
    ELSE [raised |-> FALSE, kind |-> outcome.kind,
          value |-> [text |-> llm_error_messages(lang),
                     confidence |-> LLMErrorConfidence,
                     tokens_used |-> 0]]

ChatInit ==
    /\ pc = "idle"
    /\ spc = "off"
    /\ NoSearch
    /\ NoServer
    /\ \E n \in 0..MaxPriorTurns : conversations = SubSeq(PriorConversation, 1, n)
    /\ NoRequest
    /\ NoCall
    /\ upc = "off"
    /\ text = << >>
    /\ context = << >>
    /\ validated = << >>

\* language_detector.detect_with_confidence(message) for the messages of the
\* requests
detections == [m \in Messages |-> detect_with_confidence(m)]

\* lines 43-54: session id, language detection, response language
Receive ==
    /\ pc = "idle"
    /\ \E m \in Messages, sid \in SessionArgs, pref \in Preferences :
          /\ message' = m
          /\ preferred_language' = pref
          /\ session_id' = IF sid = "" THEN NewSessionId ELSE sid
          /\ detected' = detections[m]
          /\ user_language' = determine_response_language(detections[m].lang, pref)
    /\ conversations_before' = conversations
    /\ clock' = MaxPriorTurns + 1
    /\ pc' = "fetch_history"
    /\ UNCHANGED <<conversation_history, refined_message, response, result, caught,
                   attempt, completion_calls, searches, conversations>>
    /\ UNCHANGED uvars
    /\ UNCHANGED <<svars, pvars, lvars>>

\* line 57: the store answers, or fails and the history is empty
FetchHistory ==
    /\ pc = "fetch_history"
    /\ \E ok \in BOOLEAN :
          conversation_history' =
              IF ok THEN get_conversation_history(conversations, session_id, HistoryLimit)
              ELSE << >>
    /\ pc' = "contextualize"
    /\ UNCHANGED <<message, preferred_language, session_id, detected, user_language,
                   refined_message, response, result, caught, attempt,
                   completion_calls, searches, conversations, conversations_before,
                   clock>>
    /\ UNCHANGED uvars
    /\ UNCHANGED <<svars, pvars, lvars>>

\* contextualize_query without the fallback to the utterance on failure
Contextualize_no_fallback ==
    /\ pc = "contextualize"
    /\ IF conversation_history = << >>
       THEN /\ refined_message' = message
            /\ UNCHANGED completion_calls
       ELSE \E o \in Rewrites :
               /\ completion_calls' =
                      Append(completion_calls, [stage |-> "contextualize", kind |-> o.kind])
               /\ refined_message' =
                      strip_quotes(o.content)
    /\ pc' = "retrieve"
    /\ UNCHANGED <<message, preferred_language, session_id, detected, user_language,
                   conversation_history, response, result, caught, attempt, searches,
                   conversations, conversations_before, clock>>
    /\ UNCHANGED uvars
    /\ UNCHANGED <<svars, pvars, lvars>>

\* lines 61-64 and contextualize_query
Contextualize ==
    /\ pc = "contextualize"
    /\ IF conversation_history = << >>
       THEN /\ refined_message' = message
            /\ UNCHANGED completion_calls
       ELSE \E o \in Rewrites :
               /\ completion_calls' =
                      Append(completion_calls, [stage |-> "contextualize", kind |-> o.kind])
               /\ refined_message' =
                      IF o.kind = "ok" THEN strip_quotes(o.content) ELSE message
    /\ pc' = "retrieve"
    /\ UNCHANGED <<message, preferred_language, session_id, detected, user_language,
                   conversation_history, response, result, caught, attempt, searches,
                   conversations, conversations_before, clock>>
    /\ UNCHANGED uvars
    /\ UNCHANGED <<svars, pvars, lvars>>

NoRoadmaps_never(roadmaps) == FALSE

\* line 75: the roadmap search returned nothing
NoRoadmaps(roadmaps) == roadmaps = << >>

\* the retrieval with the intent taken from the utterance as it was sent
Retrieve_classifies_utterance ==
    /\ pc = "retrieve"
    /\ IF IsRoadmapRequest(message)
       THEN \E roadmaps \in RoadmapResults :
               /\ searches' = Append(searches, [corpus |-> "roadmaps",
                                                query |-> refined_message,
                                                found |-> Len(roadmaps)])
               /\ IF NoRoadmaps(roadmaps)
                  THEN /\ result' = generate_fallback_response(
                                        user_language, session_id, detected.lang, clock)
                       /\ pc' = "done"
                       /\ UNCHANGED <<context, caught>>
                  ELSE IF FormatRaises(roadmaps)
                  THEN /\ result' = generate_error_response(
                                        preferred_language, session_id, clock)
                       /\ caught' = TRUE
                       /\ pc' = "done"
                       /\ UNCHANGED context
                  ELSE /\ context' = format_roadmap_context(roadmaps)
                       /\ pc' = "generate"
                       /\ UNCHANGED <<result, caught>>
       ELSE \E faq_context \in FaqResults :
               /\ searches' = Append(searches, [corpus |-> "faq",
                                                query |-> refined_message,
                                                found |-> Len(faq_context)])
               /\ context' = faq_context
               /\ pc' = "generate"
               /\ UNCHANGED <<result, caught>>
    /\ clock' = clock + 1
    /\ UNCHANGED <<message, preferred_language, session_id, detected, user_language,
                   conversation_history, refined_message, response, attempt,
                   completion_calls, conversations, conversations_before>>
    /\ UNCHANGED <<upc, text, validated>>
    /\ UNCHANGED <<svars, pvars, lvars>>

\* lines 67-86: intent, retrieval, roadmap formatting or the fallback return
Retrieve ==
    /\ pc = "retrieve"
    /\ IF IsRoadmapRequest(refined_message)
       THEN \E roadmaps \in RoadmapResults :
               /\ searches' = Append(searches, [corpus |-> "roadmaps",
                                                query |-> refined_message,
                                                found |-> Len(roadmaps)])
               /\ IF NoRoadmaps(roadmaps)
                  THEN /\ result' = generate_fallback_response(
                                        user_language, session_id, detected.lang, clock)
                       /\ pc' = "done"
                       /\ UNCHANGED <<context, caught>>
                  ELSE IF FormatRaises(roadmaps)
                  THEN /\ result' = generate_error_response(
                                        preferred_language, session_id, clock)
                       /\ caught' = TRUE
                       /\ pc' = "done"
                       /\ UNCHANGED context
                  ELSE /\ context' = format_roadmap_context(roadmaps)
                       /\ pc' = "generate"
                       /\ UNCHANGED <<result, caught>>
       ELSE \E faq_context \in FaqResults :
               /\ searches' = Append(searches, [corpus |-> "faq",
                                                query |-> refined_message,
                                                found |-> Len(faq_context)])
               /\ context' = faq_context
               /\ pc' = "generate"
               /\ UNCHANGED <<result, caught>>
    /\ clock' = clock + 1
    /\ UNCHANGED <<message, preferred_language, session_id, detected, user_language,
                   conversation_history, refined_message, response, attempt,
                   completion_calls, conversations, conversations_before>>
    /\ UNCHANGED <<upc, text, validated>>
    /\ UNCHANGED <<svars, pvars, lvars>>

\* lines 89-95: one attempt of generate_response under the retry decorator,
\* which calls again only when the attempt raised a retryable error
Generate ==
    /\ pc = "generate"
    /\ \E o \in Completions :
          LET r == generate_response_body(o, context, user_language)
          IN  /\ completion_calls' =
                     Append(completion_calls, [stage |-> "generate", kind |-> o.kind])
              /\ attempt' = attempt + 1
              /\ IF r.raised /\ r.kind \in RetryableErrors /\ attempt + 1 < MaxAttempts
                 THEN /\ pc' = "generate"
                      /\ UNCHANGED <<response, result, caught, text, validated>>
                 ELSE IF r.raised
                 THEN /\ result' = generate_error_response(
                                       preferred_language, session_id, clock)
                      /\ caught' = TRUE
                      /\ pc' = "done"
                      /\ UNCHANGED <<response, text, validated>>
                 ELSE /\ response' = r.value
                      /\ text' = IF o.kind = "ok"
                                 THEN clean_foreign_characters(o.content) ELSE text
                      /\ validated' = IF o.kind = "ok" THEN r.value.text ELSE validated
                      /\ pc' = "save_user"
                      /\ UNCHANGED <<result, caught>>
    /\ clock' = clock + 1
    /\ UNCHANGED <<message, preferred_language, session_id, detected, user_language,
                   conversation_history, refined_message, searches, conversations,
                   conversations_before>>
    /\ UNCHANGED <<upc, context>>
    /\ UNCHANGED <<svars, pvars, lvars>>

\* _save_conversation without its try/except: a failed insert reaches the
\* handler of process_message
SaveUser_surfaces ==
    /\ pc = "save_user"
    /\ \E ok \in BOOLEAN :
          IF ok
          THEN /\ conversations' =
                      Append(conversations,
                             [session_id |-> session_id, role |-> "user",
                              content |-> message, language |-> user_language,
                              created_at |-> clock])
               /\ pc' = "save_assistant"
               /\ UNCHANGED <<result, caught>>
          ELSE /\ pc' = "done"
               /\ result' = generate_error_response(preferred_language, session_id, clock)
               /\ caught' = TRUE
               /\ UNCHANGED conversations
    /\ clock' = clock + 1
    /\ UNCHANGED <<message, preferred_language, session_id, detected, user_language,
                   conversation_history, refined_message, response,
                   attempt, completion_calls, searches, conversations_before>>
    /\ UNCHANGED uvars
    /\ UNCHANGED <<svars, pvars, lvars>>

\* lines 242-248: the insert of the user turn; a failure ends _save_conversation
SaveUser ==
    /\ pc = "save_user"
    /\ \E ok \in BOOLEAN :
          IF ok
          THEN /\ conversations' =
                      Append(conversations,
                             [session_id |-> session_id, role |-> "user",
                              content |-> message, language |-> user_language,
                              created_at |-> clock])
               /\ pc' = "save_assistant"
          ELSE /\ pc' = "respond"
               /\ UNCHANGED conversations
    /\ clock' = clock + 1
    /\ UNCHANGED <<message, preferred_language, session_id, detected, user_language,
                   conversation_history, refined_message, response, result, caught,
                   attempt, completion_calls, searches, conversations_before>>
    /\ UNCHANGED uvars
    /\ UNCHANGED <<svars, pvars, lvars>>

\* lines 250-256: the insert of the assistant turn
SaveAssistant ==
    /\ pc = "save_assistant"
    /\ \E ok \in BOOLEAN :
          IF ok
          THEN conversations' =
                   Append(conversations,
                          [session_id |-> session_id, role |-> "assistant",
                           content |-> response.text, language |-> user_language,
                           created_at |-> clock])
          ELSE UNCHANGED conversations
    /\ pc' = "respond"
    /\ clock' = clock + 1
    /\ UNCHANGED <<message, preferred_language, session_id, detected, user_language,
                   conversation_history, refined_message, response, result, caught,
                   attempt, completion_calls, searches, conversations_before>>
    /\ UNCHANGED uvars
    /\ UNCHANGED <<svars, pvars, lvars>>

\* lines 105-115
Respond ==
    /\ pc = "respond"
    /\ result' = [response |-> response.text,
                  session_id |-> session_id,
                  user_language |-> user_language,
                  detected_language |-> detected.lang,
                  language_confidence |-> detected.conf,
                  response_language |-> user_language,
                  is_egyptian |-> (user_language = ARABIC_EGYPTIAN),
                  confidence |-> response.confidence,
                  timestamp |-> clock]
    /\ pc' = "done"
    /\ UNCHANGED <<message, preferred_language, session_id, detected, user_language,
                   conversation_history, refined_message, response, caught, attempt,
                   completion_calls, searches, conversations, conversations_before,
                   clock>>
    /\ UNCHANGED uvars
    /\ UNCHANGED <<svars, pvars, lvars>>

ChatNext ==
    \/ Receive
    \/ FetchHistory
    \/ Contextualize
    \/ Retrieve
    \/ Generate
    \/ SaveUser
    \/ SaveAssistant
    \/ Respond

SpecChat == ChatInit /\ [][ChatNext]_vars

-----------------------------------------------------------------------------
(* Claims about GENERATE, the fallback and the error policy                *)

\* the calls of the completion collaborator made by generate_response
GenerateCalls == SelectSeq(completion_calls, LAMBDA c : c.stage = "generate")

AfterGenerate == pc \in {"save_user", "save_assistant", "respond", "done"}

\* GENERATE ended without an answer of the completion collaborator
GenerateFailed ==
    /\ GenerateCalls # << >>
    /\ GenerateCalls[Len(GenerateCalls)].kind # "ok"

\* C5: a transient failure of the completion call in GENERATE that is not
\* the third attempt is followed by another attempt; there are at most
\* three attempts, and the answer of a successful attempt is the one
\* returned.
C5_TransientFailureRetried ==
    (AfterGenerate /\ GenerateCalls # << >>) =>
        /\ Len(GenerateCalls) <= 3
        /\ \A k \in 1..Len(GenerateCalls) :
              (GenerateCalls[k].kind \in RetryableErrors /\ k < 3)
                  => Len(GenerateCalls) > k
        /\ GenerateCalls[Len(GenerateCalls)].kind = "ok" =>
              response.confidence = Rat(9, 10)

\* C6: when GENERATE fails, the response carries the error text of the
\* resolved language with confidence 0.0, and the conversation table is
\* what it was when the request arrived.
C6_GenerateFailureNotPersisted ==
    (pc = "done" /\ GenerateFailed) =>
        /\ result.response = llm_error_messages(user_language)
        /\ result.confidence = Rat(0, 1)
        /\ conversations = conversations_before

\* the roadmap corpus was searched and returned no guide
ZeroGuides ==
    /\ Len(searches) = 1
    /\ searches[1].corpus = "roadmaps"
    /\ searches[1].found = 0

\* the fixed text for a resolved language; the dialect text stands in for
\* the tags that have no text of their own
NoRoadmapText(lang) ==
    IF lang = ENGLISH THEN fallback_messages_table(ENGLISH)
    ELSE IF lang = ARABIC_FUSHA THEN fallback_messages_table(ARABIC_FUSHA)
    ELSE fallback_messages_table(ARABIC_EGYPTIAN)

\* C7 as stated: roadmap intent with zero guides gives the fixed text of the
\* resolved language with confidence 0.8, and the completion collaborator
\* is never invoked.
C7_NoCompletionOnFallback ==
    (pc = "done" /\ ZeroGuides) =>
        /\ result.response = NoRoadmapText(user_language)
        /\ result.confidence = Rat(8, 10)
        /\ completion_calls = << >>

\* C7 amended: the same text and confidence; the completion collaborator is
\* not invoked to generate an answer, and is invoked at most once, by query
\* contextualization, exactly when the fetched history is non-empty.
C7_FallbackWithoutGenerate ==
    (pc = "done" /\ ZeroGuides) =>
        /\ result.response = NoRoadmapText(user_language)
        /\ result.confidence = Rat(8, 10)
        /\ GenerateCalls = << >>
        /\ Len(completion_calls) = (IF conversation_history = << >> THEN 0 ELSE 1)
        /\ conversations = conversations_before

C7_Witness ==
    /\ pc = "done"
    /\ ZeroGuides
    /\ conversation_history # << >>
    /\ completion_calls # << >>
    /\ user_language = ENGLISH
    /\ result.confidence = Rat(8, 10)

\* the required fields of the response object
WellFormed(r) ==
    /\ {"response", "session_id", "user_language", "response_language",
        "is_egyptian", "confidence", "timestamp"} \subseteq DOMAIN r
    /\ r.session_id # ""
    /\ r.is_egyptian \in BOOLEAN
    /\ r.response # << >>

\* C8: every request ends with a well-formed response object, no stage can
\* block the request, and when an exception reached the top-level handler
\* the response is the generic error text of the resolved response
\* language with confidence 0.0.
C8_ErrorResponseInRequestLanguage ==
    /\ (pc \notin {"off", "done"}) => ENABLED ChatNext
    /\ pc = "done" => WellFormed(result)
    /\ (pc = "done" /\ caught) =>
          /\ result.confidence = Rat(0, 1)
          /\ result.response = chat_error_messages(user_language)

-----------------------------------------------------------------------------
(* Synonym table                                                           *)

\* RoadmapService.SYNONYMS: <<key, synonyms>> pairs
SYNONYMS ==
  <<
    << <<"U0630","U0643","U0627","U0621">>,
       << <<"a","i">>,
          <<"a","r","t","i","f","i","c","i","a","l"," ","i","n","t","e","l","l","i","g","e","n","c","e">>,
          <<"m","a","c","h","i","n","e"," ","l","e","a","r","n","i","n","g">>,
          <<"d","a","t","a"," ","s","c","i","e","n","t","i","s","t">>,
          <<"m","l","o","p","s">> >> >>,
    << <<"U0627","U0635","U0637","U0646","U0627","U0639","U064A">>,
       << <<"a","i">>,
          <<"a","r","t","i","f","i","c","i","a","l"," ","i","n","t","e","l","l","i","g","e","n","c","e">>,
          <<"m","a","c","h","i","n","e"," ","l","e","a","r","n","i","n","g">>,
          <<"d","a","t","a"," ","s","c","i","e","n","t","i","s","t">> >> >>,
    << <<"U0630","U0643","U0627","U0621"," ","U0627","U0635","U0637","U0646","U0627","U0639","U064A">>,
       << <<"a","i">>,
          <<"a","r","t","i","f","i","c","i","a","l"," ","i","n","t","e","l","l","i","g","e","n","c","e">>,
          <<"m","a","c","h","i","n","e"," ","l","e","a","r","n","i","n","g">>,
          <<"d","a","t","a"," ","s","c","i","e","n","t","i","s","t">>,
          <<"m","l","o","p","s">> >> >>,
    << <<"a","i">>,
       << <<"a","r","t","i","f","i","c","i","a","l"," ","i","n","t","e","l","l","i","g","e","n","c","e">>,
          <<"m","a","c","h","i","n","e"," ","l","e","a","r","n","i","n","g">>,
          <<"d","a","t","a"," ","s","c","i","e","n","t","i","s","t">>,
          <<"m","l","o","p","s">>,
          <<"d","a","t","a"," ","s","c","i","e","n","c","e">> >> >>,
    << <<"a","r","t","i","f","i","c","i","a","l"," ","i","n","t","e","l","l","i","g","e","n","c","e">>,
       << <<"a","i">>,
          <<"m","a","c","h","i","n","e"," ","l","e","a","r","n","i","n","g">>,
          <<"d","a","t","a"," ","s","c","i","e","n","t","i","s","t">>,
          <<"m","l","o","p","s">> >> >>,
    << <<"m","a","c","h","i","n","e"," ","l","e","a","r","n","i","n","g">>,
       << <<"a","i">>,
          <<"d","a","t","a"," ","s","c","i","e","n","t","i","s","t">>,
          <<"m","l","o","p","s">>,
          <<"m","l">> >> >>,
    << <<"m","l">>,
       << <<"m","a","c","h","i","n","e"," ","l","e","a","r","n","i","n","g">>,
          <<"a","i">>,
          <<"m","l","o","p","s">>,
          <<"d","a","t","a"," ","s","c","i","e","n","t","i","s","t">> >> >>,
    << <<"d","a","t","a"," ","s","c","i","e","n","c","e">>,
       << <<"a","i">>,
          <<"d","a","t","a"," ","s","c","i","e","n","t","i","s","t">>,
          <<"m","a","c","h","i","n","e"," ","l","e","a","r","n","i","n","g">> >> >>,
    << <<"U0628","U064A","U0627","U0646","U0627","U062A">>,
       << <<"d","a","t","a">>,
          <<"d","a","t","a"," ","s","c","i","e","n","t","i","s","t">>,
          <<"a","i">> >> >>,
    << <<"U0648","U064A","U0628">>,
       << <<"w","e","b">>,
          <<"f","r","o","n","t","e","n","d">>,
          <<"b","a","c","k","e","n","d">>,
          <<"f","u","l","l"," ","s","t","a","c","k">> >> >>,
    << <<"w","e","b">>,
       << <<"f","r","o","n","t","e","n","d">>,
          <<"b","a","c","k","e","n","d">>,
          <<"f","u","l","l"," ","s","t","a","c","k">> >> >>,
    << <<"U0641","U0631","U0648","U0646","U062A">>,
       << <<"f","r","o","n","t","e","n","d">>,
          <<"r","e","a","c","t">>,
          <<"j","a","v","a","s","c","r","i","p","t">> >> >>,
    << <<"U0641","U0631","U0648","U0646","U062A"," ","U0627","U0646","U062F">>,
       << <<"f","r","o","n","t","e","n","d">>,
          <<"r","e","a","c","t">>,
          <<"j","a","v","a","s","c","r","i","p","t">>,
          <<"w","e","b">> >> >>,
    << <<"U0641","U0631","U0648","U0646","U062A"," ","U0625","U0646","U062F">>,
       << <<"f","r","o","n","t","e","n","d">>,
          <<"r","e","a","c","t">>,
          <<"j","a","v","a","s","c","r","i","p","t">>,
          <<"w","e","b">> >> >>,
    << <<"U0627","U0644","U0641","U0631","U0648","U0646","U062A">>,
       << <<"f","r","o","n","t","e","n","d">>,
          <<"r","e","a","c","t">>,
          <<"j","a","v","a","s","c","r","i","p","t">> >> >>,
    << <<"f","r","o","n","t","e","n","d">>,
       << <<"r","e","a","c","t">>,
          <<"j","a","v","a","s","c","r","i","p","t">>,
          <<"w","e","b">> >> >>,
    << <<"U0628","U0627","U0643">>,
       << <<"b","a","c","k","e","n","d">>,
          <<"n","o","d","e">>,
          <<"p","y","t","h","o","n">>,
          <<"j","a","v","a">> >> >>,
    << <<"U0628","U0627","U0643"," ","U0627","U0646","U062F">>,
       << <<"b","a","c","k","e","n","d">>,
          <<"n","o","d","e">>,
          <<"p","y","t","h","o","n">>,
          <<"j","a","v","a">>,
          <<"w","e","b">> >> >>,
    << <<"U0628","U0627","U0643"," ","U0625","U0646","U062F">>,
       << <<"b","a","c","k","e","n","d">>,
          <<"n","o","d","e">>,
          <<"p","y","t","h","o","n">>,
          <<"j","a","v","a">>,
          <<"w","e","b">> >> >>,
    << <<"U0627","U0644","U0628","U0627","U0643">>,
       << <<"b","a","c","k","e","n","d">>,
          <<"n","o","d","e">>,
          <<"p","y","t","h","o","n">>,
          <<"j","a","v","a">> >> >>,
    << <<"b","a","c","k","e","n","d">>,
       << <<"n","o","d","e">>,
          <<"p","y","t","h","o","n">>,
          <<"j","a","v","a">>,
          <<"w","e","b">> >> >>,
    << <<"f","u","l","l"," ","s","t","a","c","k">>,
       << <<"f","r","o","n","t","e","n","d">>,
          <<"b","a","c","k","e","n","d">>,
          <<"w","e","b">> >> >>,
    << <<"U0641","U0648","U0644"," ","U0633","U062A","U0627","U0643">>,
       << <<"f","u","l","l"," ","s","t","a","c","k">>,
          <<"f","r","o","n","t","e","n","d">>,
          <<"b","a","c","k","e","n","d">> >> >>,
    << <<"U0645","U0648","U0628","U0627","U064A","U0644">>,
       << <<"m","o","b","i","l","e">>,
          <<"a","n","d","r","o","i","d">>,
          <<"f","l","u","t","t","e","r">>,
          <<"r","e","a","c","t"," ","n","a","t","i","v","e">> >> >>,
    << <<"m","o","b","i","l","e">>,
       << <<"a","n","d","r","o","i","d">>,
          <<"f","l","u","t","t","e","r">>,
          <<"r","e","a","c","t"," ","n","a","t","i","v","e">> >> >>,
    << <<"U0627","U0646","U062F","U0631","U0648","U064A","U062F">>,
       << <<"a","n","d","r","o","i","d">>,
          <<"m","o","b","i","l","e">> >> >>,
    << <<"a","n","d","r","o","i","d">>,
       << <<"m","o","b","i","l","e">> >> >>,
    << <<"f","l","u","t","t","e","r">>,
       << <<"m","o","b","i","l","e">> >> >>,
    << <<"U062F","U064A","U0641"," ","U0627","U0648","U0628","U0633">>,
       << <<"d","e","v","o","p","s">>,
          <<"d","o","c","k","e","r">>,
          <<"k","u","b","e","r","n","e","t","e","s">> >> >>,
    << <<"d","e","v","o","p","s">>,
       << <<"d","o","c","k","e","r">>,
          <<"k","u","b","e","r","n","e","t","e","s">> >> >>,
    << <<"d","o","c","k","e","r">>,
       << <<"d","e","v","o","p","s">>,
          <<"k","u","b","e","r","n","e","t","e","s">> >> >>,
    << <<"k","u","b","e","r","n","e","t","e","s">>,
       << <<"d","e","v","o","p","s">>,
          <<"d","o","c","k","e","r">> >> >>,
    << <<"U0627","U0645","U0646">>,
       << <<"s","e","c","u","r","i","t","y">>,
          <<"c","y","b","e","r"," ","s","e","c","u","r","i","t","y">>,
          <<"c","y","b","e","r">> >> >>,
    << <<"U0627","U0645","U0627","U0646">>,
       << <<"s","e","c","u","r","i","t","y">>,
          <<"c","y","b","e","r"," ","s","e","c","u","r","i","t","y">> >> >>,
    << <<"s","e","c","u","r","i","t","y">>,
       << <<"c","y","b","e","r"," ","s","e","c","u","r","i","t","y">>,
          <<"c","y","b","e","r">> >> >>,
    << <<"c","y","b","e","r">>,
       << <<"s","e","c","u","r","i","t","y">>,
          <<"c","y","b","e","r"," ","s","e","c","u","r","i","t","y">> >> >>,
    << <<"U0642","U0648","U0627","U0639","U062F"," ","U0628","U064A","U0627","U0646","U0627","U062A">>,
       << <<"d","a","t","a","b","a","s","e">>,
          <<"s","q","l">>,
          <<"m","o","n","g","o","d","b">>,
          <<"p","o","s","t","g","r","e","s","q","l">> >> >>,
    << <<"d","a","t","a","b","a","s","e">>,
       << <<"s","q","l">>,
          <<"m","o","n","g","o","d","b">>,
          <<"p","o","s","t","g","r","e","s","q","l">> >> >>,
    << <<"s","q","l">>,
       << <<"d","a","t","a","b","a","s","e">>,
          <<"p","o","s","t","g","r","e","s","q","l">> >> >>,
    << <<"m","o","n","g","o","d","b">>,
       << <<"d","a","t","a","b","a","s","e">> >> >>,
    << <<"p","o","s","t","g","r","e","s","q","l">>,
       << <<"d","a","t","a","b","a","s","e">>,
          <<"s","q","l">> >> >>,
    << <<"U062A","U0635","U0645","U064A","U0645">>,
       << <<"d","e","s","i","g","n">>,
          <<"u","x">> >> >>,
    << <<"d","e","s","i","g","n">>,
       << <<"u","x">> >> >>,
    << <<"u","x">>,
       << <<"d","e","s","i","g","n">> >> >>,
    << <<"U0628","U0644","U0648","U0643","U062A","U0634","U064A","U0646">>,
       << <<"b","l","o","c","k","c","h","a","i","n">> >> >>,
    << <<"b","l","o","c","k","c","h","a","i","n">>,
       << <<"w","e","b","3">> >> >>,
    << <<"w","e","b","3">>,
       << <<"b","l","o","c","k","c","h","a","i","n">> >> >>,
    << <<"p","y","t","h","o","n">>,
       << <<"b","a","c","k","e","n","d">>,
          <<"a","i">>,
          <<"d","a","t","a"," ","s","c","i","e","n","t","i","s","t">> >> >>,
    << <<"j","a","v","a">>,
       << <<"b","a","c","k","e","n","d">> >> >>,
    << <<"j","a","v","a","s","c","r","i","p","t">>,
       << <<"f","r","o","n","t","e","n","d">>,
          <<"b","a","c","k","e","n","d">>,
          <<"n","o","d","e">> >> >>,
    << <<"r","e","a","c","t">>,
       << <<"f","r","o","n","t","e","n","d">> >> >>,
    << <<"n","o","d","e">>,
       << <<"b","a","c","k","e","n","d">> >> >>,
    << <<"g","o">>,
       << <<"b","a","c","k","e","n","d">> >> >>,
    << <<"g","o","l","a","n","g">>,
       << <<"g","o">>,
          <<"b","a","c","k","e","n","d">> >> >>
  >>

-----------------------------------------------------------------------------
(* RoadmapService: synonym expansion and fuzzy text matching (Tier 3)      *)

\* the expansion without the lookup from synonym to key
expand_query_keys_only(query) ==
    LET query_lower == Lower(query)
    IN  {query_lower} \cup UNION { Range(SYNONYMS[k][2]) :
                                     k \in { k \in 1..Len(SYNONYMS) :
                                               Contains(query_lower, SYNONYMS[k][1]) } }

\* _expand_query: the set of query variants
expand_query(query) ==
    LET query_lower == Lower(query)
        Syn(k) == Range(SYNONYMS[k][2])
        ByKey == UNION { Syn(k) : k \in { k \in 1..Len(SYNONYMS) :
                                            Contains(query_lower, SYNONYMS[k][1]) } }
        BySynonym == UNION { {SYNONYMS[k][1]} \cup Syn(k) :
                               k \in { k \in 1..Len(SYNONYMS) :
                                         \E x \in Syn(k) : Contains(query_lower, x) } }
    IN  {query_lower} \cup ByKey \cup BySynonym

\* length of the common run of a from i and b from j, inside a[..ahi) and b[..bhi)
CommonRun(a, i, ahi, b, j, bhi) ==
    Max({ k \in 0..Min({ahi - i, bhi - j}) :
            \A t \in 0..(k - 1) : a[i + t] = b[j + t] })

\* autojunk of SequenceMatcher (the default): when b has 200 characters or
\* more, the characters that occur in b more than len(b) // 100 + 1 times
\* are left out of the index b2j
Popular(b) ==
    IF Len(b) < 200 THEN {}
    ELSE { c \in Range(b) :
             Cardinality({ j \in 1..Len(b) : b[j] = c }) > (Len(b) \div 100) + 1 }

\* length of the common run of a from i and b from j that the index can
\* find: it ends before the first character of b that is not indexed
IndexedRun(a, i, ahi, b, j, bhi, popular) ==
    Max({ k \in 0..Min({ahi - i, bhi - j}) :
            \A t \in 0..(k - 1) : a[i + t] = b[j + t] /\ b[j + t] \notin popular })

\* SequenceMatcher.find_longest_match: the longest block of indexed
\* characters, leftmost in a, then leftmost in b, extended to the left and
\* then to the right over every character that matches
find_longest_match(a, alo, ahi, b, blo, bhi) ==
    LET popular == Popular(b)
        pairs == (alo..(ahi - 1)) \X (blo..(bhi - 1))
        k == Max({0} \cup { IndexedRun(a, p[1], ahi, b, p[2], bhi, popular) : p \in pairs })
        best == { p \in pairs : IndexedRun(a, p[1], ahi, b, p[2], bhi, popular) = k }
        i == IF k = 0 THEN alo ELSE Min({ p[1] : p \in best })
        j == IF k = 0 THEN blo ELSE Min({ p[2] : p \in { p \in best : p[1] = i } })
        back == Max({ n \in 0..Min({i - alo, j - blo}) :
                        \A t \in 1..n : a[i - t] = b[j - t] })
        fwd == CommonRun(a, i + k, ahi, b, j + k, bhi)
    IN  <<i - back, j - back, back + k + fwd>>

RECURSIVE MatchingSize(_, _, _, _, _, _)
\* the total size of get_matching_blocks() on a[alo..ahi) and b[blo..bhi)
MatchingSize(a, alo, ahi, b, blo, bhi) ==
    IF alo >= ahi \/ blo >= bhi THEN 0
    ELSE LET m == find_longest_match(a, alo, ahi, b, blo, bhi)
         IN  IF m[3] = 0 THEN 0
             ELSE m[3] + MatchingSize(a, alo, m[1], b, blo, m[2])
                       + MatchingSize(a, m[1] + m[3], ahi, b, m[2] + m[3], bhi)

\* _calculate_similarity: SequenceMatcher(None, str1.lower(), str2.lower()).ratio()
calculate_similarity(str1, str2) ==
    LET a == Lower(str1)
        b == Lower(str2)
    IN  IF Len(a) + Len(b) = 0 THEN Rat(1, 1)
        ELSE Rat(2 * MatchingSize(a, 1, Len(a) + 1, b, 1, Len(b) + 1), Len(a) + Len(b))

RatMax(S) == CHOOSE x \in S : \A y \in S : ~RatGT(y, x)

\* dict.get(key, ''): the value, or the empty string when the key is absent
GetOr(row, key) == IF key \in DOMAIN row THEN row[key] ELSE << >>

AndWord == <<"a","n","d">>

\* lines 262-266: cleaned fields of a roadmap
title_clean(r) == StrReplace(StrReplace(Lower(r.title), <<"&">>, AndWord), <<"-">>, <<" ">>)
desc_clean(r) ==
    StrReplace(StrReplace(Lower(GetOr(r, "description")), <<"&">>, AndWord), <<"-">>, <<" ">>)
cat_clean(r) ==
    StrReplace(StrReplace(Lower(GetOr(r, "category")), <<"/">>, <<" ">>), <<"-">>, <<" ">>)
searchable_text(r) == title_clean(r) \o <<" ">> \o desc_clean(r) \o <<" ">> \o cat_clean(r)

\* lines 268-281: max_score of one roadmap over the query variants
max_score(r, expanded_queries) ==
    LET Clean(e) == StrReplace(StrReplace(e, <<"&">>, AndWord), <<"-">>, <<" ">>)
    IN  IF \E e \in expanded_queries : Contains(searchable_text(r), Clean(e))
        THEN Rat(1, 1)
        ELSE RatMax({Rat(0, 1)} \cup
                    UNION { { calculate_similarity(Clean(e), title_clean(r)),
                              calculate_similarity(Clean(e), desc_clean(r)),
                              calculate_similarity(Clean(e), cat_clean(r)) } :
                            e \in expanded_queries })

\* exp_query.replace('&', 'and').replace('-', ' ')
exp_query_clean(e) == StrReplace(StrReplace(e, <<"&">>, AndWord), <<"-">>, <<" ">>)

RECURSIVE scan_variants(_, _, _, _)
\* lines 271-281: the loop over the list of variants from position i on, with
\* the score reached so far: a variant found in the searchable text gives 1.0
\* and ends the loop, any other raises the score to the best of its three
\* field similarities
scan_variants(r, variants, i, score_so_far) ==
    IF i > Len(variants) THEN score_so_far
    ELSE IF Contains(searchable_text(r), exp_query_clean(variants[i]))
    THEN RatMax({score_so_far, Rat(1, 1)})
    ELSE scan_variants(r, variants, i + 1,
             RatMax({ score_so_far,
                      calculate_similarity(exp_query_clean(variants[i]), title_clean(r)),
                      calculate_similarity(exp_query_clean(variants[i]), desc_clean(r)),
                      calculate_similarity(exp_query_clean(variants[i]), cat_clean(r)) }))

\* the score of the first variant of the list alone
max_score_first_variant(r, variants) ==
    scan_variants(r, SubSeq(variants, 1, 1), 1, Rat(0, 1))

\* lines 268-281: max_score of one roadmap, computed over the list of
\* variants in the order of the list
max_score_in_order(r, variants) == scan_variants(r, variants, 1, Rat(0, 1))

MinScore == Rat(15, 100)

RECURSIVE SortBySimilarity_unstable(_)
\* a descending sort that puts the last of the rows of equal similarity first
SortBySimilarity_unstable(rows) ==
    IF rows = << >> THEN << >>
    ELSE LET i == Max({ k \in 1..Len(rows) :
                          \A l \in 1..Len(rows) : ~RatGT(rows[l].similarity, rows[k].similarity) })
         IN  <<rows[i]>> \o
             SortBySimilarity_unstable(SubSeq(rows, 1, i - 1) \o SubSeq(rows, i + 1, Len(rows)))

RECURSIVE SortBySimilarity(_)
\* list.sort(key=similarity, reverse=True): descending, equal keys keep their order
SortBySimilarity(rows) ==
    IF rows = << >> THEN << >>
    ELSE LET i == Min({ k \in 1..Len(rows) :
                          \A l \in 1..Len(rows) : ~RatGT(rows[l].similarity, rows[k].similarity) })
         IN  <<rows[i]>> \o
             SortBySimilarity(SubSeq(rows, 1, i - 1) \o SubSeq(rows, i + 1, Len(rows)))

Take(s, n) == SubSeq(s, 1, Min({n, Len(s)}))

\* a row with the keys similarity and similarity_score set
Scored(r, score) ==
    [k \in DOMAIN r \cup {"similarity", "similarity_score"} |->
        IF k \in {"similarity", "similarity_score"} THEN score ELSE r[k]]

\* lines 254-294 of _fuzzy_search: the text matching of Tier 3; a roadmap
\* without title raises KeyError and the search returns []
text_matching(query, all_roadmaps, limit) ==
    IF \E k \in 1..Len(all_roadmaps) : "title" \notin DOMAIN all_roadmaps[k]
    THEN << >>
    ELSE LET expanded == expand_query(query)
             scored == [k \in 1..Len(all_roadmaps) |->
                           Scored(all_roadmaps[k], max_score(all_roadmaps[k], expanded))]
             kept == SelectSeq(scored, LAMBDA r : RatGT(r.similarity, MinScore))
         IN  Take(SortBySimilarity(kept), limit)

-----------------------------------------------------------------------------
(* EmbeddingService: embeddings, cosine similarity, client-side search     *)

\* None, and the empty results of a failed collaborator call
None == << >>

\* generate_embedding: None for blank text, an unavailable model or a failed
\* encode; otherwise the vector the model returns
generate_embedding(t, avail, enc) ==
    IF Strip(t) = << >> \/ ~avail THEN None ELSE enc

Dot(v1, v2) == LET RECURSIVE S(_)
                   S(k) == IF k = 0 THEN 0 ELSE v1[k] * v2[k] + S(k - 1)
               IN  S(Len(v1))

\* np.linalg.norm for the vectors of the model, whose norms are integers
Norm(v) == CHOOSE n \in 0..Dot(v, v) : n * n = Dot(v, v)

\* _calculate_cosine_similarity
calculate_cosine_similarity(vec1, vec2) ==
    IF Norm(vec1) = 0 \/ Norm(vec2) = 0 THEN Rat(0, 1)
    ELSE Rat(Dot(vec1, vec2), Norm(vec1) * Norm(vec2))

\* the shape check of line 167 removed: every candidate is scored
ShapeMismatch_never(query_vec, doc_vec) == FALSE

\* line 167: query_vec.shape != doc_vec.shape
ShapeMismatch(query_vec, doc_vec) == Len(query_vec) # Len(doc_vec)

\* the words of the text fields of an item, lines 211-222
item_words(item) ==
    LET fields == <<"title", "description", "category", "question_ar",
                    "question_en", "answer_ar", "answer_en">>
    IN  UNION { Range(Split(Lower(GetOr(item, fields[k])))) : k \in 1..Len(fields) }

\* _keyword_search_fallback
keyword_search_fallback(query_text, items, limit) ==
    LET query_parts == Range(Split(Lower(query_text)))
        Score(item) ==
            IF item_words(item) = {} \/ query_parts = {} THEN Rat(0, 1)
            ELSE Rat(Cardinality(query_parts \cap item_words(item)),
                     Cardinality(query_parts))
        scored == [k \in 1..Len(items) |-> Scored(items[k], Score(items[k]))]
        kept == SelectSeq(scored, LAMBDA r : RatGT(r.similarity, Rat(0, 1)))
    IN  Take(SortBySimilarity(kept), limit)

\* search_similar_roadmaps; np.dot raises on vectors of different length,
\* and the except branch of line 189 then answers as the fallback does
search_similar_roadmaps(query_text, roadmaps, limit, allow_fallback, avail, enc) ==
    LET query_embedding == generate_embedding(query_text, avail, enc)
        fallback == IF allow_fallback
                    THEN keyword_search_fallback(query_text, roadmaps, limit)
                    ELSE << >>
        candidates == SelectSeq(roadmaps, LAMBDA r :
                          /\ GetOr(r, "embedding") # None
                          /\ ~ShapeMismatch(query_embedding, r.embedding))
        raises == \E k \in 1..Len(candidates) :
                      Len(candidates[k].embedding) # Len(query_embedding)
        scored_roadmaps ==
            [k \in 1..Len(candidates) |->
                Scored(candidates[k],
                       calculate_cosine_similarity(query_embedding,
                                                   candidates[k].embedding))]
    IN  IF roadmaps = << >> THEN << >>
        ELSE IF avail /\ query_embedding # None
        THEN IF raises THEN fallback
             ELSE IF scored_roadmaps # << >>
             THEN Take(SortBySimilarity(scored_roadmaps), limit)
             ELSE fallback
        ELSE fallback

-----------------------------------------------------------------------------
(* RoadmapService.search_roadmaps and RAGService.search_faqs               *)

HighConfidence == Rat(6, 10)

\* row.get('similarity', 0)
SimilarityOf(r) == IF "similarity" \in DOMAIN r THEN r.similarity ELSE Rat(0, 1)

\* _vector_search: the rows of RPC match_roadmaps, [] on any failure
vector_search(query, avail, enc, rpc_outcome) ==
    IF ~avail \/ generate_embedding(query, avail, enc) = None \/ ~rpc_outcome.ok
    THEN << >>
    ELSE rpc_outcome.data

\* _fuzzy_search without the client-side vector search: text matching only
fuzzy_search_text_only(query, limit, table, fetch_ok, avail, enc) ==
    LET all_roadmaps == IF fetch_ok THEN table ELSE << >>
    IN  IF all_roadmaps = << >> THEN << >>
        ELSE text_matching(query, all_roadmaps, limit)

\* _fuzzy_search: client-side vector search when embeddings exist, then
\* text matching
fuzzy_search(query, limit, table, fetch_ok, avail, enc) ==
    LET all_roadmaps == IF fetch_ok THEN table ELSE << >>
        vector_results ==
            IF (\E k \in 1..Len(all_roadmaps) : GetOr(all_roadmaps[k], "embedding") # None)
               /\ avail
            THEN search_similar_roadmaps(query, all_roadmaps, limit, FALSE, avail, enc)
            ELSE << >>
    IN  IF all_roadmaps = << >> THEN << >>
        ELSE IF vector_results # << >> THEN vector_results
        ELSE text_matching(query, all_roadmaps, limit)

\* the cascade removed: the result of the server-side tier is the answer
search_roadmaps_no_cascade(query, limit, table, fetch_ok, avail, enc, rpc_outcome) ==
    vector_search(query, avail, enc, rpc_outcome)

\* RoadmapService.search_roadmaps with use_embeddings = True
search_roadmaps(query, limit, table, fetch_ok, avail, enc, rpc_outcome) ==
    LET vector_results == vector_search(query, avail, enc, rpc_outcome)
    IN  IF vector_results # << >>
           /\ RatGT(SimilarityOf(vector_results[1]), HighConfidence)
        THEN vector_results
        ELSE fuzzy_search(query, limit, table, fetch_ok, avail, enc)

FaqLimit == 5

\* RAGService.search_faqs
search_faqs(query, table, fetch_ok, avail, enc, rpc_outcome) ==
    LET query_embedding == generate_embedding(query, avail, enc)
        all_faqs == IF fetch_ok THEN SelectSeq(table, LAMBDA r : r.is_active)
                    ELSE << >>
    IN  IF query_embedding # None /\ rpc_outcome.ok /\ rpc_outcome.data # << >>
        THEN rpc_outcome.data
        ELSE IF all_faqs = << >> THEN << >>
        ELSE search_similar_roadmaps(query, all_faqs, FaqLimit, TRUE, avail, enc)


-----------------------------------------------------------------------------
(* The searches as a state machine over bounded corpora                    *)

MaxRows == 3

RoadmapPool ==
    { [id |-> 1, title |-> <<"P","y","t","h","o","n">>, description |-> <<"p","y">>,
       category |-> <<"d","e","v">>, embedding |-> <<3, 4>>],
      [id |-> 2, title |-> <<"F","r","o","n","t","-","E","n","d">>,
       description |-> <<"w","e","b"," ","u","i">>,
       category |-> <<"W","e","b","/","U","I">>, embedding |-> <<1, 0, 0>>],
      [id |-> 3, title |-> <<"A","I"," ","&"," ","M","L">>,
       category |-> <<"A","I","/","M","L">>],
      [id |-> 4, title |-> <<"G","o">>, description |-> << >>, category |-> << >>,
       embedding |-> <<4, 3>>] }

FaqPool ==
    { [id |-> 1, question_en |-> <<"p","y","t","h","o","n">>,
       answer_en |-> <<"s","e","e"," ","p","y">>, category |-> <<"d","e","v">>,
       is_active |-> TRUE, embedding |-> <<3, 4>>],
      [id |-> 2, question_en |-> <<"w","e","b">>, answer_en |-> <<"u","i">>,
       category |-> <<"w","e","b">>, is_active |-> TRUE, embedding |-> <<1, 0, 0>>],
      [id |-> 3, question_en |-> <<"a","i">>, answer_en |-> <<"m","l">>,
       category |-> <<"a","i">>, is_active |-> TRUE],
      [id |-> 4, question_en |-> <<"g","o">>, answer_en |-> <<"g","o">>,
       category |-> <<"d","e","v">>, is_active |-> FALSE, embedding |-> <<4, 3>>] }

Queries ==
    { <<"p","y","t","h","n">>, <<"w","e","b">>, <<"g","o"," ","a","i">> }

\* vectors returned by the embedding model, one of them opposite to a stored
\* embedding and one of norm zero
QueryVectors == { <<3, 4>>, <<1, 0>>, <<-3, -4>>, <<0, 0>> }

Limits == {1, 3}

\* outcomes of the RPC of the store: failure, or stored_rows with their similarity
RpcOutcomes ==
    { [ok |-> FALSE, data |-> << >>],
      [ok |-> TRUE, data |-> << >>],
      [ok |-> TRUE, data |-> << [id |-> 9, title |-> <<"R","p","c">>,
                                 similarity |-> Rat(7, 10)] >>],
      [ok |-> TRUE, data |-> << [id |-> 9, title |-> <<"R","p","c">>,
                                 similarity |-> Rat(55, 100)] >>] }

\* the sequences of at most n distinct elements of S
RECURSIVE Arrangements(_, _)
Arrangements(S, n) ==
    IF n = 0 THEN { << >> }
    ELSE LET shorter == Arrangements(S, n - 1)
         IN  shorter \cup { Append(s, x) : s \in { t \in shorter : Len(t) = n - 1 },
                                           x \in S }

Tables(pool) == { t \in Arrangements(pool, MaxRows) :
                    \A i, j \in 1..Len(t) : i # j => t[i] # t[j] }

SearchInit ==
    /\ spc = "input"
    /\ results = << >>
    /\ called = ""
    /\ corpus \in {"roadmaps", "faq"}
    /\ stored_rows \in Tables(IF corpus = "roadmaps" THEN RoadmapPool ELSE FaqPool)
    /\ the_query \in Queries
    /\ the_limit \in Limits
    /\ available \in BOOLEAN
    /\ encoded \in (IF available THEN QueryVectors \cup {None} ELSE {None})
    /\ rpc \in RpcOutcomes
    /\ store_ok \in BOOLEAN
    /\ pc = "off"
    /\ conversations = << >>
    /\ NoRequest
    /\ NoCall
    /\ NoServer
    /\ upc = "off"
    /\ text = << >>
    /\ context = << >>
    /\ validated = << >>

\* RoadmapService.search_roadmaps(the_query, the_limit)
SearchRoadmaps ==
    /\ spc = "input"
    /\ corpus = "roadmaps"
    /\ results' = search_roadmaps(the_query, the_limit, stored_rows, store_ok, available, encoded, rpc)
    /\ called' = "search_roadmaps"
    /\ spc' = "done"
    /\ UNCHANGED <<corpus, the_query, stored_rows, the_limit, available, encoded, rpc, store_ok>>
    /\ UNCHANGED <<uvars, cvars, pvars, lvars>>

\* RAGService.search_faqs(the_query, language)
SearchFaqs ==
    /\ spc = "input"
    /\ corpus = "faq"
    /\ results' = search_faqs(the_query, stored_rows, store_ok, available, encoded, rpc)
    /\ called' = "search_faqs"
    /\ spc' = "done"
    /\ UNCHANGED <<corpus, the_query, stored_rows, the_limit, available, encoded, rpc, store_ok>>
    /\ UNCHANGED <<uvars, cvars, pvars, lvars>>

\* EmbeddingService.search_similar_roadmaps(the_query, stored_rows, the_limit, allow_fallback)
ClientSideSearch ==
    /\ spc = "input"
    /\ \E allow_fallback \in BOOLEAN :
          /\ results' = search_similar_roadmaps(the_query, stored_rows, the_limit, allow_fallback,
                                                available, encoded)
          /\ called' = IF allow_fallback THEN "client_side_fallback" ELSE "client_side"
    /\ spc' = "done"
    /\ UNCHANGED <<corpus, the_query, stored_rows, the_limit, available, encoded, rpc, store_ok>>
    /\ UNCHANGED <<uvars, cvars, pvars, lvars>>

SearchNext ==
    \/ SearchRoadmaps
    \/ SearchFaqs
    \/ ClientSideSearch

SpecSearch == SearchInit /\ [][SearchNext]_vars

-----------------------------------------------------------------------------
(* Claims about the tier cascade                                           *)

\* what a search returned: the ids in order, with their scores
IdsAndScores(rs) == [k \in 1..Len(rs) |-> <<rs[k].id, rs[k].similarity>>]

\* a FAQ seen as a Tier-3 candidate: question for title, answer for description
FaqCandidate(r) ==
    [id |-> r.id,
     title |-> GetOr(r, "question_en"),
     description |-> GetOr(r, "answer_en"),
     category |-> GetOr(r, "category")]

\* a pure Tier-3 run over the roadmap table
RoadmapTier3 ==
    text_matching(the_query, IF store_ok THEN stored_rows ELSE << >>, the_limit)

\* a pure Tier-3 run over the active FAQs
FaqTier3 ==
    LET active == SelectSeq(stored_rows, LAMBDA r : r.is_active)
        fetched == IF store_ok THEN active ELSE << >>
    IN  text_matching(the_query, [k \in 1..Len(fetched) |-> FaqCandidate(fetched[k])],
                      FaqLimit)

RoadmapSearchIsTier3 ==
    (spc = "done" /\ called = "search_roadmaps" /\ ~available) =>
        IdsAndScores(results) = IdsAndScores(RoadmapTier3)

FaqSearchIsTier3 ==
    (spc = "done" /\ called = "search_faqs" /\ ~available) =>
        IdsAndScores(results) = IdsAndScores(FaqTier3)

\* C9: with the embedding collaborator unavailable, the search of either
\* corpus returns exactly what the synonym-expanded fuzzy match with the
\* 0.15 cut-off returns over the same corpus.
C9_UnavailableIsPureTier3 == RoadmapSearchIsTier3 /\ FaqSearchIsTier3

\* the candidates whose embedding has the dimension of the query embedding
SameDimension ==
    SelectSeq(stored_rows, LAMBDA r :
        /\ "embedding" \in DOMAIN r
        /\ r.embedding # << >>
        /\ Len(r.embedding) = Len(encoded))

ClientSideScored ==
    /\ spc = "done"
    /\ called \in {"client_side", "client_side_fallback"}
    /\ available
    /\ encoded # None
    /\ SameDimension # << >>

\* C10: when the client-side vector tier has a query embedding, a candidate
\* of another dimension does not make it fail: the result holds only
\* same-dimension candidates, each with its cosine similarity, as many as
\* the limit allows, and no candidate left out scores higher than one
\* returned.
C10_MismatchSkipped ==
    ClientSideScored =>
        /\ Len(results) = Min({the_limit, Len(SameDimension)})
        /\ \A k \in 1..Len(results) :
              \E j \in 1..Len(SameDimension) :
                 /\ results[k].id = SameDimension[j].id
                 /\ results[k].similarity =
                        calculate_cosine_similarity(encoded, SameDimension[j].embedding)
        /\ \A k, l \in 1..Len(results) : k # l => results[k].id # results[l].id
        /\ \A j \in 1..Len(SameDimension) :
              (\A k \in 1..Len(results) : results[k].id # SameDimension[j].id) =>
                  \A k \in 1..Len(results) :
                     ~RatGT(calculate_cosine_similarity(encoded, SameDimension[j].embedding),
                            results[k].similarity)

C10_Witness ==
    /\ ClientSideScored
    /\ called = "client_side"
    /\ \E k \in 1..Len(stored_rows) :
          /\ "embedding" \in DOMAIN stored_rows[k]
          /\ Len(stored_rows[k].embedding) # Len(encoded)
    /\ Len(SameDimension) = 2
    /\ Len(results) = 2

-----------------------------------------------------------------------------
(* Claims about failures of the collaborators of the search                *)

\* the limit the search in progress works with
LimitInUse == IF called = "search_faqs" THEN FaqLimit ELSE the_limit

\* what the server-side tier produced: nothing when the embedding or the
\* RPC failed
RpcTier ==
    IF generate_embedding(the_query, available, encoded) # None /\ rpc.ok
    THEN rpc.data ELSE << >>

\* the rows the store handed over: none when the fetch failed
Fetched ==
    IF ~store_ok THEN << >>
    ELSE IF corpus = "faq" THEN SelectSeq(stored_rows, LAMBDA r : r.is_active)
    ELSE stored_rows

\* what the client-side cosine tier produced over the fetched rows
CosineTier ==
    search_similar_roadmaps(the_query, Fetched, LimitInUse, FALSE, available, encoded)

\* what the text tier of the corpus produced over the fetched rows
TextTier ==
    IF corpus = "faq" THEN keyword_search_fallback(the_query, Fetched, LimitInUse)
    ELSE text_matching(the_query, Fetched, LimitInUse)

LaterTiers == IF CosineTier # << >> THEN CosineTier ELSE TextTier

SearchDone == spc = "done" /\ called \in {"search_roadmaps", "search_faqs"}

\* C11: a failure of the embedding or store collaborator inside a tier counts
\* as that tier having produced nothing: a first tier that failed or found
\* nothing is followed by the tiers after it, whose result is returned, and
\* the search returns the empty list only when every tier after the first
\* produced nothing (and, for the FAQs, the first tier too).
C11_FailureCascades ==
    SearchDone =>
        /\ RpcTier = << >> => results = LaterTiers
        /\ results = << >> => LaterTiers = << >>
        /\ (results = << >> /\ called = "search_faqs") => RpcTier = << >>

C11_Witness ==
    /\ SearchDone
    /\ called = "search_roadmaps"
    /\ available /\ encoded # None /\ ~rpc.ok
    /\ store_ok
    /\ results # << >>

-----------------------------------------------------------------------------
(* Claims about similarity values                                          *)

InUnitInterval(x) == ~RatGT(Rat(0, 1), x) /\ ~RatGT(x, Rat(1, 1))

\* the result in hand was computed by a client-side tier, not by the RPC
ClientComputed ==
    /\ spc = "done"
    /\ \/ called \in {"client_side", "client_side_fallback"}
       \/ SearchDone /\ results = LaterTiers /\ results # RpcTier

\* the stored embeddings and the query embedding, the vectors a cosine is
\* computed over
VectorsInHand ==
    { stored_rows[k].embedding :
        k \in { j \in 1..Len(stored_rows) : "embedding" \in DOMAIN stored_rows[j] } }
    \cup (IF encoded = None THEN {} ELSE {encoded})

\* C12: every document returned by a client-computed tier (client-side
\* cosine, fuzzy, keyword fallback) carries a similarity in [0,1], whatever
\* the embeddings and texts, and the cosine similarity of two vectors is
\* exactly 0 when one of them has norm zero.
C12_SimilarityInUnitInterval ==
    /\ ClientComputed =>
          \A k \in 1..Len(results) : InUnitInterval(results[k].similarity)
    /\ spc = "done" =>
          \A v, w \in VectorsInHand :
             (Len(v) = Len(w) /\ (Norm(v) = 0 \/ Norm(w) = 0)) =>
                 calculate_cosine_similarity(v, w) = Rat(0, 1)

-----------------------------------------------------------------------------
(* Direct calls of the language detector                                   *)

MaxDetectLen == 3

\* characters of the texts handed to the detector: whitespace, an English
\* letter, an Arabic letter, a punctuation mark
DetectChars == {" ", "\t", "\n", "\r", "U00A0", "a", "U0627", "?"}

\* 'ازيك عامل ايه'
HowAreYouAr ==
    <<"U0627","U0632","U064A","U0643"," ","U0639","U0627","U0645","U0644"," ",
      "U0627","U064A","U0647">>

\* 'ايه تمام يعني بص فين كليه a a a a a a a a a a a a': five patterns, one
\* education term, eighteen words
FivePatternsText ==
    <<"U0627","U064A","U0647"," ","U062A","U0645","U0627","U0645"," ",
      "U064A","U0639","U0646","U064A"," ","U0628","U0635"," ","U0641",
      "U064A","U0646"," ","U0643","U0644","U064A","U0647"," ","a"," ","a",
      " ","a"," ","a"," ","a"," ","a"," ","a"," ","a"," ","a"," ","a"," ",
      "a"," ","a">>

\* 'ايه تمام يعني': three patterns
ThreePatternsText ==
    <<"U0627","U064A","U0647"," ","U062A","U0645","U0627","U0645"," ",
      "U064A","U0639","U0646","U064A">>

\* 'كليه': an education term
EducationText ==
    <<"U0643","U0644","U064A","U0647">>

DetectTexts ==
    SeqsUpTo(DetectChars, MaxDetectLen)
       \cup {HowAreYouAr, <<" ","O","K"," ">>, FivePatternsText, ThreePatternsText,
             EducationText}

DetectInit ==
    /\ dpc = "input"
    /\ arg_text \in DetectTexts
    /\ returned = << >>
    /\ upc = "off"
    /\ text = << >>
    /\ context = << >>
    /\ validated = << >>
    /\ pc = "off"
    /\ conversations = << >>
    /\ NoRequest
    /\ spc = "off"
    /\ NoSearch
    /\ NoServer

\* language_detector.detect_with_confidence(arg_text)
Detect ==
    /\ dpc = "input"
    /\ returned' = detect_with_confidence(arg_text)
    /\ dpc' = "done"
    /\ UNCHANGED arg_text
    /\ UNCHANGED <<uvars, cvars, svars, lvars>>

DetectNext == Detect

SpecDetect == DetectInit /\ [][DetectNext]_vars

\* C13: detect returns (unknown, 0.0) for the empty input and for every
\* input made of whitespace characters only.
C13_BlankIsUnknownZero ==
    (dpc = "done" /\ \A k \in 1..Len(arg_text) : arg_text[k] \in Whitespace) =>
        returned = [lang |-> UNKNOWN, conf |-> FloatZero]

\* C14: for the message 'ازيك عامل ايه' with no explicit preference the
\* detector returns ar_EG with a confidence above 0.6 through the early exit
\* on the pattern score (0.7 * matched patterns / 6 + 0.3 * education
\* fraction > 0.6), and the resolved language is ar_EG.
C14_GreetingRoutesToDialect ==
    (pc \notin {"off", "idle"} /\ message = HowAreYouAr /\ preferred_language = "auto") =>
        /\ detected.lang = ARABIC_EGYPTIAN
        /\ FloatGT(detected.conf, FloatDiv(6, 10))
        /\ FloatGT(calculate_egyptian_score(Strip(Lower(message))), EarlyExitThreshold)
        /\ user_language = ARABIC_EGYPTIAN

-----------------------------------------------------------------------------
(* Direct calls of the synonym expansion                                   *)

\* the queries of the direct calls: the empty query, a word outside the map,
\* keys and synonyms in lower and upper case, a key that is part of a longer
\* key, and two words; each has at most six variants
ExpandQueries ==
    { << >>,
      <<"p","y","t","h","n">>,
      <<"u","x">>,
      <<"G","o">>,
      <<"d","o","c","k","e","r">>,
      <<"u","x"," ","p","y","t","h","n">>,
      <<"U0628","U0627","U0643">>,
      <<"U0628","U0627","U0643"," ","U0627","U0646","U062F">> }

RECURSIVE SetAsList(_)
\* the elements of a set, one after the other
SetAsList(S) ==
    IF S = {} THEN << >>
    ELSE LET x == CHOOSE x \in S : TRUE
         IN  <<x>> \o SetAsList(S \ {x})

RECURSIVE ListOfSet(_)
\* list(set(expanded)): the variants without repetition; the order of the
\* list follows the hashes of the strings, which change from one process to
\* the next, so the call can return the variants in any order
ListOfSet(S) ==
    IF S = {} THEN { << >> }
    ELSE UNION { { <<x>> \o l : l \in ListOfSet(S \ {x}) } : x \in S }

ExpandInit ==
    /\ dpc = "input"
    /\ arg_text \in ExpandQueries
    /\ returned = << >>
    /\ upc = "off"
    /\ text = << >>
    /\ context = << >>
    /\ validated = << >>
    /\ pc = "off"
    /\ conversations = << >>
    /\ NoRequest
    /\ spc = "off"
    /\ NoSearch
    /\ NoServer

\* self._expand_query(arg_text)
Expand ==
    /\ dpc = "input"
    /\ returned' \in ListOfSet(expand_query(arg_text))
    /\ dpc' = "done"
    /\ UNCHANGED arg_text
    /\ UNCHANGED <<uvars, cvars, svars, lvars>>

ExpandNext == Expand

SpecExpand == ExpandInit /\ [][ExpandNext]_vars

BackendWord == <<"b","a","c","k","e","n","d">>

BackendVariants ==
    { BackendWord, <<"n","o","d","e">>, <<"p","y","t","h","o","n">>,
      <<"j","a","v","a">>, <<"w","e","b">> }

\* C15: expand returns a collection without duplicates that contains the
\* lowercased query, the synonym list of every key found in the query and,
\* for every synonym found in the query, its key with that key's synonym
\* list; expand("backend") contains backend, node, python, java and web;
\* the set of variants depends on the input only, in whatever order the
\* call returns them.
C15_ExpandContainsSynonyms ==
    dpc = "done" =>
        LET out == Range(returned)
            q == Lower(arg_text)
        IN  /\ Cardinality(out) = Len(returned)
            /\ q \in out
            /\ \A k \in 1..Len(SYNONYMS) :
                  Contains(q, SYNONYMS[k][1]) => Range(SYNONYMS[k][2]) \subseteq out
            /\ \A k \in 1..Len(SYNONYMS) :
                  \A j \in 1..Len(SYNONYMS[k][2]) :
                     Contains(q, SYNONYMS[k][2][j]) =>
                        /\ SYNONYMS[k][1] \in out
                        /\ Range(SYNONYMS[k][2]) \subseteq out
            /\ BackendVariants \subseteq expand_query(BackendWord)
            /\ Contains(q, BackendWord) => BackendVariants \subseteq out
            /\ out = expand_query(arg_text)

\* the key 'باك اند' and the key 'باك' inside it were found: the call returned
\* the query with backend, node, python, java and web, the query not first
C15_Witness ==
    /\ dpc = "done"
    /\ arg_text = <<"U0628","U0627","U0643"," ","U0627","U0646","U062F">>
    /\ Range(returned) = (BackendVariants \cup {arg_text})
    /\ Len(returned) = 6
    /\ returned[1] # arg_text

\* a synonym was found in the query: the call returned its keys and their
\* synonyms, and the query last
C15_WitnessSynonym ==
    /\ dpc = "done"
    /\ arg_text = <<"G","o">>
    /\ Range(returned) = { <<"g","o">>, <<"g","o","l","a","n","g">>, BackendWord }
    /\ returned[3] = <<"g","o">>

-----------------------------------------------------------------------------
(* Claims about contextualization, persistence and history                 *)

AfterContextualize ==
    pc \in {"retrieve", "generate", "save_user", "save_assistant", "respond", "done"}

\* the completion collaborator failed while rewriting the utterance
RewriteFailed ==
    \E k \in 1..Len(completion_calls) :
       /\ completion_calls[k].stage = "contextualize"
       /\ completion_calls[k].kind # "ok"

\* C16: with an empty history, and whenever the completion collaborator
\* fails during rewriting, contextualization returns the utterance
\* unchanged, and the pipeline goes on to intent classification and
\* retrieval with that utterance instead of ending in an error response.
C16_ContextualizeFallsBackToUtterance ==
    (AfterContextualize /\ (conversation_history = << >> \/ RewriteFailed)) =>
        /\ refined_message = message
        /\ pc = "retrieve" => (~caught /\ result = << >>)
        /\ searches # << >> => searches[1].query = message

C16_Witness ==
    /\ pc = "done"
    /\ RewriteFailed
    /\ conversation_history # << >>
    /\ searches # << >>
    /\ searches[1].query = message
    /\ ~caught

\* the request reached PERSIST and one of the two appends failed
PersistFailed ==
    /\ pc = "done"
    /\ response # << >>
    /\ Len(conversations) < Len(conversations_before) + 2

\* C17: a failure of the store while appending the user turn or the
\* assistant turn does not reach the caller: process_message returns the
\* text and the confidence of the generated response, as it does when both
\* appends succeed.
C17_PersistFailureSwallowed ==
    (pc = "done" /\ response # << >>) =>
        /\ ~caught
        /\ result.response = response.text
        /\ result.confidence = response.confidence
        /\ WellFormed(result)

C17_Witness ==
    /\ PersistFailed
    /\ Len(conversations) = Len(conversations_before) + 1
    /\ result.response = response.text
    /\ result.confidence = LLMConfidence

AfterFetchHistory == pc \notin {"off", "idle", "fetch_history"}

\* the turns of the session of the request stored when it arrived
SessionTurns ==
    { conversations_before[k] :
        k \in { j \in 1..Len(conversations_before) :
                  conversations_before[j].session_id = session_id } }

\* the n most recently created turns of the session
NewestTurns(n) ==
    { r \in SessionTurns :
        Cardinality({ q \in SessionTurns : q.created_at > r.created_at }) < n }

\* history is the given turns, oldest first
ChronologicalWindow(history, turns) ==
    /\ Len(history) = Cardinality(turns)
    /\ \A r \in turns :
          LET k == 1 + Cardinality({ q \in turns : q.created_at < r.created_at })
          IN  history[k] = [role |-> r.role, content |-> r.content]

\* C18: the history handed to the pipeline holds turns of the session of the
\* request only, the most recent ones, at most 8, oldest first by creation
\* time, in whatever order the store keeps them; when the store fails to
\* answer the history is empty, and the pipeline goes on.
C18_HistoryIsRecentWindowAscending ==
    AfterFetchHistory =>
        /\ Len(conversation_history) <= HistoryLimit
        /\ \/ conversation_history = << >>
           \/ ChronologicalWindow(conversation_history, NewestTurns(HistoryLimit))
        /\ pc = "contextualize" => (~caught /\ result = << >>)

C18_Witness ==
    /\ AfterFetchHistory
    /\ Cardinality(SessionTurns) > HistoryLimit
    /\ Len(conversation_history) = HistoryLimit
    /\ \E k \in 1..(Len(conversations_before) - 1) :
          /\ conversations_before[k].session_id = session_id
          /\ conversations_before[k + 1].session_id = session_id
          /\ conversations_before[k].created_at > conversations_before[k + 1].created_at

\* the store failed to answer and the request went on with an empty history
C18_EmptyOnStoreFailure ==
    /\ pc = "done"
    /\ ~caught
    /\ SessionTurns # {}
    /\ conversation_history = << >>

-----------------------------------------------------------------------------
(* Concurrent requests of POST /chat on the event loop of the server       *)

MaxRequests == 3

Requests == 1..MaxRequests

\* the collaborator calls of process_message, by the position of the request
StoreCalls == {"read_history", "rpc", "fetch", "save_user", "save_assistant"}
CompletionCalls == {"rewrite", "generate"}
EncodeCalls == {"encode", "encode_again"}
CallStages == StoreCalls \cup CompletionCalls \cup EncodeCalls

\* the calls that can follow a call in process_message; "done" is the return
\* (after the RPC or the client-side search of the roadmaps: the fallback, or
\* the error response when _format_roadmap_context raises)
Successors(stage) ==
    CASE stage = "read_history"   -> {"rewrite", "encode", "fetch"}
      [] stage = "rewrite"        -> {"encode", "fetch"}
      [] stage = "encode"         -> {"rpc", "fetch"}
      [] stage = "rpc"            -> {"generate", "fetch", "done"}
      [] stage = "fetch"          -> {"encode_again", "generate", "done"}
      [] stage = "encode_again"   -> {"generate", "done"}
      [] stage = "generate"       -> {"save_user"}
      [] stage = "save_user"      -> {"save_assistant", "done"}
      [] stage = "save_assistant" -> {"done"}

\* does the coroutine hand the event loop back while it is inside the call:
\* execute(), completions.create() and encode() are plain calls, not awaited
Suspends(stage) == FALSE

\* generate_embedding takes no lock around self._model.encode: no request
\* ever holds one
EncodeLockHolder == 0

\* the session all requests of the server model belong to
SharedSession == "s1"

\* the rows _save_conversation inserts for request r
UserTurn(r, now) ==
    [session_id |-> SharedSession, role |-> "user",
     content |-> <<"q", DigitSeq[r + 1]>>, created_at |-> now]

AssistantTurn(r, now) ==
    [session_id |-> SharedSession, role |-> "assistant",
     content |-> <<"a", DigitSeq[r + 1]>>, created_at |-> now]

\* the two inserts in the opposite order
save_conversation_assistant_first(table, r, stage, n, ok, now) ==
    IF stage = "save_user" /\ n = "save_assistant"
    THEN Append(table, AssistantTurn(r, now))
    ELSE IF stage = "save_assistant" /\ ok
    THEN Append(table, UserTurn(r, now))
    ELSE table

\* table conversations after the call of stage has returned and request r
\* goes on to n: the insert of the user turn succeeded when the request goes
\* on to the insert of the assistant turn, and failed when it returns at
\* once; the insert of the assistant turn succeeded or failed
save_conversation(table, r, stage, n, ok, now) ==
    IF stage = "save_user" /\ n = "save_assistant"
    THEN Append(table, UserTurn(r, now))
    ELSE IF stage = "save_assistant" /\ ok
    THEN Append(table, AssistantTurn(r, now))
    ELSE table

ServerInit ==
    /\ at = [r \in Requests |-> "none"]
    /\ loop = 0
    /\ upc = "off"
    /\ text = << >>
    /\ context = << >>
    /\ validated = << >>
    /\ pc = "off"
    /\ conversations = << >>
    /\ NoRequest
    /\ NoCall
    /\ spc = "off"
    /\ NoSearch

\* a client sends request r
Arrive(r) ==
    /\ at[r] = "none"
    /\ at' = [at EXCEPT ![r] = "arrived"]
    /\ UNCHANGED loop
    /\ UNCHANGED <<uvars, cvars, svars, pvars>>

\* the event loop starts the coroutine of chat_endpoint for request r, which
\* runs into the first collaborator call of process_message
Start(r) ==
    /\ at[r] = "arrived"
    /\ loop = 0
    /\ at' = [at EXCEPT ![r] = "read_history"]
    /\ loop' = IF Suspends("read_history") THEN 0 ELSE r
    /\ UNCHANGED <<uvars, cvars, svars, pvars>>

\* the collaborator call request r is inside returns, and the coroutine runs
\* on into its next call or to its return
Return(r) ==
    /\ at[r] \in CallStages
    /\ loop = IF Suspends(at[r]) THEN 0 ELSE r
    /\ \E n \in Successors(at[r]), ok \in BOOLEAN :
          /\ at' = [at EXCEPT ![r] = n]
          /\ loop' = IF n = "done" \/ Suspends(n) THEN 0 ELSE r
          /\ conversations' = save_conversation(conversations, r, at[r], n, ok, clock)
    /\ clock' = IF at[r] \in {"save_user", "save_assistant"} THEN clock + 1 ELSE clock
    /\ UNCHANGED <<pc, message, preferred_language, session_id, detected, user_language,
                   conversation_history, refined_message, response, result, caught,
                   attempt, completion_calls, searches, conversations_before>>
    /\ UNCHANGED <<uvars, svars, pvars>>

ServerNext ==
    \E r \in Requests :
       \/ Arrive(r)
       \/ Start(r)
       \/ Return(r)

SpecServer == ServerInit /\ [][ServerNext]_vars

InEncode(r) == at[r] \in EncodeCalls

\* no two requests are inside encode at once
EncodeExclusive ==
    \A r, q \in Requests : (r # q /\ InEncode(r)) => ~InEncode(q)

\* C19: calls of the shared embedding model are serialized across
\* concurrent requests: no two requests are inside encode at once, and a
\* lock around the shared instance enforces it: a request inside encode
\* holds the lock.
C19_EncodeSerializedByLock ==
    /\ EncodeExclusive
    /\ \A r \in Requests : InEncode(r) => EncodeLockHolder = r

\* request r is waiting on a collaborator call
Waiting(r) == at[r] \in CallStages

InFlight(r) == at[r] \notin {"none", "done"}

\* C20: while a request waits on a collaborator call (store, completion,
\* embedding), every other request in flight can take its next step.
C20_OthersNotBlocked ==
    \A r, q \in Requests :
       (r # q /\ Waiting(r) /\ InFlight(q)) => ENABLED (Start(q) \/ Return(q))

-----------------------------------------------------------------------------
(* Claims about the response object and the routing of a request           *)

\* the three ways a request ends
EndedOnErrorPath == pc = "done" /\ caught
EndedOnFallbackPath == pc = "done" /\ ~caught /\ response = << >>
EndedOnNormalPath == pc = "done" /\ ~caught /\ response # << >>

\* C21: a request that supplies a session_id is answered with that
\* session_id, and a request whose preference is ar_EG is answered with
\* is_egyptian = true, on the normal path, the no-roadmap fallback path and
\* the error path alike.
C21_SessionAndDialectEchoed ==
    pc = "done" =>
        /\ session_id # NewSessionId => result.session_id = session_id
        /\ preferred_language = "ar_EG" => result.is_egyptian = TRUE

C21_Witness ==
    /\ EndedOnErrorPath
    /\ session_id = "s1"
    /\ preferred_language = "ar_EG"
    /\ result.session_id = "s1"
    /\ result.is_egyptian

C21_WitnessFallback ==
    /\ EndedOnFallbackPath
    /\ session_id = "s1"
    /\ preferred_language = "ar_EG"
    /\ result.is_egyptian

C21_WitnessNormal ==
    /\ EndedOnNormalPath
    /\ session_id = "s1"
    /\ preferred_language = "ar_EG"
    /\ result.is_egyptian

-----------------------------------------------------------------------------
(* Claims about the tiers of the search                                    *)

\* the server-side tier produced rows and the first of them is above the
\* high-confidence threshold
RpcConfident ==
    /\ RpcTier # << >>
    /\ RatGT(SimilarityOf(RpcTier[1]), HighConfidence)

\* the server-side rows are what the search returned
ReturnedRpcRows == RpcTier # << >> /\ results = RpcTier

\* C22: for both corpora the server-side vector results are the result of the
\* search only when they are non-empty and the similarity of the top result
\* exceeds 0.6; with a top similarity at or below 0.6 the search goes on to
\* the client-side tiers and returns their result.
C22_RpcRowsOnlyWhenConfident ==
    SearchDone =>
        /\ ReturnedRpcRows => RpcConfident
        /\ (RpcTier # << >> /\ ~RpcConfident) => results = LaterTiers

\* the roadmap half of C22, which the roadmap search satisfies
C22_RoadmapRpcRowsOnlyWhenConfident ==
    (SearchDone /\ called = "search_roadmaps") =>
        /\ ReturnedRpcRows => RpcConfident
        /\ RpcConfident => results = RpcTier
        /\ (RpcTier # << >> /\ ~RpcConfident) => results = LaterTiers

\* a FAQ search that returned server-side rows of similarity 0.55
C22_FaqLowConfidenceReturned ==
    /\ SearchDone
    /\ called = "search_faqs"
    /\ ReturnedRpcRows
    /\ ~RpcConfident

\* the search ended with the list of a client-side tier (cosine, fuzzy text
\* or keyword), not with the rows of the server-side tier
FromClientTier ==
    /\ spc = "done"
    /\ called \in {"client_side", "client_side_fallback"} \/ ~ReturnedRpcRows

\* the position of a returned candidate in the rows the store returned
StorePosition(r) == CHOOSE k \in 1..Len(stored_rows) : stored_rows[k].id = r.id

\* the limit of the call that was made
LimitOfCall == IF called = "search_faqs" THEN FaqLimit ELSE the_limit

\* C23: the list returned by the client-side vector tier and by the fuzzy
\* tier has at most limit elements, is sorted by similarity in descending
\* order, and keeps candidates of equal similarity in the order in which the
\* store returned them.
C23_ClientTierSortedStableBounded ==
    FromClientTier =>
        /\ Len(results) <= LimitOfCall
        /\ \A i, j \in 1..Len(results) :
              i < j =>
                 /\ ~RatGT(results[j].similarity, results[i].similarity)
                 /\ results[i].similarity = results[j].similarity
                       => StorePosition(results[i]) < StorePosition(results[j])

\* the cosine tier returned two candidates of equal similarity
C23_Witness ==
    /\ spc = "done"
    /\ called = "client_side"
    /\ Len(results) = 2
    /\ results[1].similarity = results[2].similarity
    /\ "embedding" \in DOMAIN results[1]

\* the fuzzy tier of the roadmap search returned two candidates of equal
\* similarity
C23_WitnessFuzzyTie ==
    /\ SearchDone
    /\ called = "search_roadmaps"
    /\ results = TextTier
    /\ Len(results) >= 2
    /\ results[1].similarity = results[2].similarity

\* more candidates than the limit: the list is cut to the limit
C23_WitnessTruncated ==
    /\ spc = "done"
    /\ called = "client_side"
    /\ the_limit = 1
    /\ Len(results) = 1
    /\ Len(search_similar_roadmaps(the_query, stored_rows, MaxRows, FALSE,
                                   available, encoded)) >= 2

-----------------------------------------------------------------------------
(* Claims about the resolution of the response language                    *)

\* the three tags a detection result is taken over as
PrimaryTags == {ARABIC_EGYPTIAN, ARABIC_FUSHA, ENGLISH}

\* what RESOLVE_PREFERENCE is to give for a detected tag and a preference
Resolved(det, preferred) ==
    IF preferred # "auto" /\ preferred \in LanguageType THEN preferred
    ELSE IF det \in PrimaryTags THEN det
    ELSE ARABIC_EGYPTIAN

\* the request has been received and its language resolved
LanguageResolved == pc \notin {"off", "idle"}

\* C24: a preference other than "auto" that names a language tag is the
\* resolved language whatever was detected; with "auto", or a preference
\* naming no tag, the resolved language is the detected tag when that is
\* ar_EG, ar or en, and ar_EG otherwise. Stated of the language resolved for
\* the request in progress and of every pair of a tag and a preference.
C24_ResolvePreference ==
    LanguageResolved =>
        /\ user_language = Resolved(detected.lang, preferred_language)
        /\ \A det \in LanguageType, preferred \in Preferences \cup LanguageType :
              determine_response_language(det, preferred) = Resolved(det, preferred)

\* an explicit preference overrides a different detected primary tag
C24_Witness ==
    /\ LanguageResolved
    /\ preferred_language = "en"
    /\ detected.lang = ARABIC_FUSHA
    /\ user_language = ENGLISH

\* no preference and a detection outside the primary tags: the dialect
C24_WitnessDefault ==
    /\ LanguageResolved
    /\ preferred_language \in {"auto", "fr"}
    /\ detected.lang = UNKNOWN
    /\ user_language = ARABIC_EGYPTIAN

\* no preference and a primary detected tag: the detected tag
C24_WitnessDetected ==
    /\ LanguageResolved
    /\ preferred_language = "fr"
    /\ detected.lang = ENGLISH
    /\ user_language = ENGLISH

-----------------------------------------------------------------------------
(* Claims about intent classification and retrieval                        *)

\* the request has passed retrieval
AfterRetrieve == pc \in {"generate", "save_user", "save_assistant", "respond", "done"}

\* C25: the intent is classified on the contextualized query, not on the
\* utterance: a request searches exactly one corpus, the roadmap corpus if
\* and only if the contextualized query matches a trigger pattern and the
\* FAQ corpus otherwise, and the query of that search is the contextualized
\* query; nothing is searched before retrieval.
C25_IntentOnContextualizedQuery ==
    /\ pc \in {"idle", "fetch_history", "contextualize", "retrieve"} => searches = << >>
    /\ AfterRetrieve =>
           /\ Len(searches) = 1
           /\ searches[1].query = refined_message
           /\ searches[1].corpus \in {"roadmaps", "faq"}
           /\ searches[1].corpus = "roadmaps" <=> IsRoadmapRequest(refined_message)

\* an utterance without a trigger whose rewrite has one: the roadmaps
C25_Witness ==
    /\ AfterRetrieve
    /\ ~IsRoadmapRequest(message)
    /\ IsRoadmapRequest(refined_message)
    /\ searches[1].corpus = "roadmaps"
    /\ searches[1].query # message

\* an utterance with a trigger whose rewrite has none: the FAQs
C25_WitnessFaq ==
    /\ AfterRetrieve
    /\ IsRoadmapRequest(message)
    /\ ~IsRoadmapRequest(refined_message)
    /\ searches[1].corpus = "faq"
    /\ searches[1].query = refined_message

-----------------------------------------------------------------------------
(* Claims about the rewritten query                                        *)

QuoteChars == {"\"", "'"}

\* a text without the whitespace and quote characters that surround it
TrimSurrounding(content) ==
    LET keep == { j \in 1..Len(content) : content[j] \notin Whitespace \cup QuoteChars }
    IN  IF keep = {} THEN << >> ELSE SubSeq(content, Min(keep), Max(keep))

\* the completion collaborator returned a rewritten query
RewriteReturned ==
    /\ AfterContextualize
    /\ \E k \in 1..Len(completion_calls) :
          /\ completion_calls[k].stage = "contextualize"
          /\ completion_calls[k].kind = "ok"

\* C26: when the completion collaborator returns a rewritten query,
\* contextualize returns that text with only the surrounding quote characters
\* and the surrounding whitespace removed: the contextualized query is one of
\* the rewrites of the collaborator with its interior left as it was.
C26_RewriteKeepsInterior ==
    RewriteReturned =>
        \E o \in Rewrites :
           /\ o.kind = "ok"
           /\ refined_message = TrimSurrounding(o.content)

\* the surrounding quotes and whitespace of a rewrite are removed
C26_SurroundingRemoved ==
    /\ RewriteReturned
    /\ refined_message = <<"a","i"," ","r","o","a","d","m","a","p">>

\* the rewrite what's ai has lost its apostrophe
C26_InteriorQuoteRemoved ==
    /\ RewriteReturned
    /\ refined_message = <<"w","h","a","t","s"," ","a","i">>

-----------------------------------------------------------------------------
(* Claims about the order of the stored turns                              *)

\* the positions of the turns of request r in table conversations
UserPositions(r) ==
    { k \in 1..Len(conversations) :
         conversations[k].role = "user" /\ conversations[k].content = UserTurn(r, 0).content }

AssistantPositions(r) ==
    { k \in 1..Len(conversations) :
         /\ conversations[k].role = "assistant"
         /\ conversations[k].content = AssistantTurn(r, 0).content }

\* every stored assistant turn of r has the user turn of r before it, in the
\* table and by created_at, the order of the history
UserBeforeAssistant(r) ==
    \A a \in AssistantPositions(r) :
       \E u \in UserPositions(r) :
          /\ u < a
          /\ conversations[u].created_at < conversations[a].created_at

\* request r goes into the insert of its assistant turn
IssuesAssistantAppend(r) == at[r] # "save_assistant" /\ at'[r] = "save_assistant"

\* C27: within a request the append of the user turn is issued and has
\* completed before the append of the assistant turn is issued, no assistant
\* turn is stored for a request whose user append failed, and under every
\* interleaving of concurrent requests of one session the user turn of a
\* request precedes its own assistant turn in the history.
C27_UserTurnBeforeAssistantTurn ==
    /\ [](\A r \in Requests :
            /\ UserBeforeAssistant(r)
            /\ AssistantPositions(r) # {} => UserPositions(r) # {}
            /\ at[r] = "save_user" => UserPositions(r) = {} /\ AssistantPositions(r) = {})
    /\ [][\A r \in Requests :
            IssuesAssistantAppend(r) =>
               /\ at[r] = "save_user"
               /\ UserPositions(r) = {}
               /\ UserPositions(r)' # {}
               /\ AssistantPositions(r)' = {}]_vars

\* two requests of the session stored both of their turns and the user
\* append of a third failed
C27_Witness ==
    /\ \A r \in Requests : at[r] = "done"
    /\ Len(conversations) = 4
    /\ \E r \in Requests : UserPositions(r) = {} /\ AssistantPositions(r) = {}
    /\ \E r, q \in Requests :
          /\ r # q
          /\ UserPositions(r) # {} /\ AssistantPositions(r) # {}
          /\ UserPositions(q) # {} /\ AssistantPositions(q) # {}

-----------------------------------------------------------------------------
(* Claims about the order of the query variants                            *)

\* the stored roadmaps in one fixed order
PoolTable == SetAsList(RoadmapPool)

\* lines 259-294 over the list of variants as returned: score, threshold,
\* sort, slice
RankingInOrder(variants, limit) ==
    LET scored == [k \in 1..Len(PoolTable) |->
                      Scored(PoolTable[k], max_score_in_order(PoolTable[k], variants))]
        kept == SelectSeq(scored, LAMBDA r : RatGT(r.similarity, MinScore))
    IN  Take(SortBySimilarity(kept), limit)

\* the score the claim gives: 1.0 if a normalized variant is a substring of
\* the searchable text, otherwise the greatest field similarity of a variant
OrderFreeScore(r, variants) ==
    IF \E e \in variants : Contains(searchable_text(r), exp_query_clean(e))
    THEN Rat(1, 1)
    ELSE RatMax({Rat(0, 1)} \cup
                UNION { { calculate_similarity(exp_query_clean(e), title_clean(r)),
                          calculate_similarity(exp_query_clean(e), desc_clean(r)),
                          calculate_similarity(exp_query_clean(e), cat_clean(r)) } :
                        e \in variants })

\* C28: the fuzzy score of a candidate does not depend on the order in which
\* the variants are iterated: in every order in which the expansion can
\* return them the candidate gets 1.0 if a normalized variant is a substring
\* of its searchable text and the greatest field similarity over all variants
\* otherwise, and the ranking is that of the order-free scores.
C28_ScoreIndependentOfVariantOrder ==
    dpc = "done" =>
        /\ \A r \in RoadmapPool :
              /\ max_score_in_order(r, returned) = OrderFreeScore(r, Range(returned))
              /\ max_score(r, expand_query(arg_text)) = max_score_in_order(r, returned)
        /\ RankingInOrder(returned, MaxRows) = text_matching(arg_text, PoolTable, MaxRows)

\* a candidate with a direct match on a variant that is not the first of the
\* list, after a variant that is no direct match
C28_Witness ==
    /\ dpc = "done"
    /\ Len(returned) >= 3
    /\ \E r \in RoadmapPool :
          /\ ~Contains(searchable_text(r), exp_query_clean(returned[1]))
          /\ \E i \in 2..Len(returned) :
                Contains(searchable_text(r), exp_query_clean(returned[i]))
          /\ max_score_in_order(r, returned) = Rat(1, 1)

\* a candidate without a direct match whose best variant is not the first
C28_WitnessPartial ==
    /\ dpc = "done"
    /\ Len(returned) >= 3
    /\ \E r \in RoadmapPool :
          /\ \A i \in 1..Len(returned) :
                ~Contains(searchable_text(r), exp_query_clean(returned[i]))
          /\ RatGT(max_score_in_order(r, returned), max_score_first_variant(r, returned))

-----------------------------------------------------------------------------
(* Claims about the reachability of the no-roadmap fallback                *)

\* the embedding model is available and returned a vector for a non-empty
\* query, the store read succeeded, and a stored roadmap carries an
\* embedding of the dimensionality of that vector
ComparableEmbeddingStored ==
    /\ available
    /\ Strip(the_query) # << >>
    /\ encoded # None
    /\ store_ok
    /\ \E k \in 1..Len(stored_rows) :
          /\ GetOr(stored_rows[k], "embedding") # None
          /\ Len(stored_rows[k].embedding) = Len(encoded)

\* C29: with the embedding model available, a non-empty query, a successful
\* store read and a stored roadmap whose embedding has the dimensionality of
\* the query embedding, the roadmap search returns a non-empty list whatever
\* the similarities are, so that the request does not take the no-roadmap
\* fallback.
C29_ComparableEmbeddingGivesRoadmaps ==
    (SearchDone /\ called = "search_roadmaps" /\ ComparableEmbeddingStored) =>
        /\ results # << >>
        /\ ~NoRoadmaps(results)
        /\ Len(results) <= the_limit

\* the only comparable roadmap is opposite to the query and no text matches:
\* it is returned with similarity -1
C29_Witness ==
    /\ SearchDone
    /\ called = "search_roadmaps"
    /\ ComparableEmbeddingStored
    /\ RpcTier = << >>
    /\ TextTier = << >>
    /\ Len(results) = 1
    /\ RatGT(Rat(0, 1), results[1].similarity)

-----------------------------------------------------------------------------
(* Claims about the cleaning step before validation                        *)

\* generate_response returned the validated text of a draft
DraftValidated ==
    /\ pc \in {"save_user", "save_assistant", "respond", "done"}
    /\ ~caught
    /\ response # << >>
    /\ completion_calls[Len(completion_calls)].kind = "ok"

\* the URLs of the context that the draft reproduces verbatim
ReproducedUrls(draft) == valid_urls(context) \cap Range(FindUrls(draft))

\* C30: a URL of the grounding context that the draft of the completion
\* collaborator reproduces verbatim is present unchanged in the text
\* generate_response returns: cleaning does not alter it and validation does
\* not replace it by the placeholder.
C30_ContextUrlSurvivesCleaning ==
    DraftValidated =>
        \A o \in Completions :
           (o.kind = "ok" /\ text = clean_foreign_characters(o.content)) =>
               \A u \in ReproducedUrls(o.content) : u \in Range(FindUrls(validated))

\* a reproduced context URL without a word of the cleaning tables is kept
C30_AllowedUrlKept ==
    /\ DraftValidated
    /\ UrlA \in valid_urls(context)
    /\ text = clean_foreign_characters(<<"g","o"," ">> \o UrlA \o <<" ">> \o UrlB)
    /\ UrlA \in Range(FindUrls(validated))

\* the reproduced context URL http://x/coverage was cut to http://x/ by the
\* cleaning and replaced by the placeholder
C30_AllowedUrlReplaced ==
    /\ DraftValidated
    /\ UrlCoverage \in valid_urls(context)
    /\ text = <<"s","e","e"," ">> \o SchemeHttp \o <<"x","/">>
    /\ validated = <<"s","e","e"," ">> \o LinkNotAvailable


====
